---- MODULE Spec2Model ----
(***************************************************************************)
(* TokenGauge: the concurrent multi-provider fetch (tokengauge-core), its  *)
(* error classifier and the payload -> row projection.                     *)
(*                                                                         *)
(* Text is modelled as Rust holds it: a str is its sequence of UTF-8 bytes *)
(* (integers 0..255), len() counts bytes and a slice that does not start   *)
(* and end on a character boundary panics.  Byte offsets are 0-based, as   *)
(* in the source.  Option<T> is <<>> (None) or <<t>> (Some(t)).            *)
(***************************************************************************)
EXTENDS Integers, Sequences, FiniteSets, TLC

None == <<>>
Some(t) == <<t>>
IsSome(o) == Len(o) = 1
Unwrap(o) == o[1]

----------------------------------------------------------------------------
(* str primitives used by the source                                       *)

\* &s[a..b]
Slice(s, a, b) == SubSeq(s, a + 1, b)

\* s.find(pat): the byte offset of the first match, as Option<usize>
Find(s, pat) ==
    LET hits == {i \in 0..(Len(s) - Len(pat)) : Slice(s, i, i + Len(pat)) = pat}
    IN  IF hits = {} THEN None
        ELSE Some(CHOOSE i \in hits : \A j \in hits : i <= j)

\* s.contains(pat)
Contains(s, pat) == IsSome(Find(s, pat))

\* s.is_char_boundary(i): what &s[..i] checks before slicing
IsCharBoundary(s, i) ==
    \/ i = 0
    \/ i = Len(s)
    \/ i < Len(s) /\ ~(s[i + 1] \in 128..191)

\* ASCII white space, as str::trim removes it from texts of the model
IsSpace(b) == b \in {9, 10, 11, 12, 13, 32}

RECURSIVE TrimStart(_)
TrimStart(s) ==
    IF s # <<>> /\ IsSpace(Head(s)) THEN TrimStart(Tail(s)) ELSE s

RECURSIVE TrimEnd(_)
TrimEnd(s) ==
    IF s # <<>> /\ IsSpace(s[Len(s)]) THEN TrimEnd(SubSeq(s, 1, Len(s) - 1)) ELSE s

\* s.trim()
Trim(s) == TrimEnd(TrimStart(s))

\* Display of an unsigned integer: decimal digits
RECURSIVE Digits(_)
Digits(n) ==
    IF n < 10 THEN <<48 + n>> ELSE Digits(n \div 10) \o <<48 + (n % 10)>>

\* s repeated n times
RECURSIVE Repeat(_, _)
Repeat(s, n) == IF n = 0 THEN <<>> ELSE s \o Repeat(s, n - 1)

----------------------------------------------------------------------------
(* Error classifier                                                        *)

\* the first of 401/403/404/500/502/503 that raw contains
extract_http_status(raw) ==
    LET patterns == << <<52, 48, 49>>, <<52, 48, 51>>, <<52, 48, 52>>,
                       <<53, 48, 48>>, <<53, 48, 50>>, <<53, 48, 51>> >>
        found == {k \in 1..Len(patterns) : Contains(raw, patterns[k])}
    IN  IF found = {} THEN None
        ELSE Some(patterns[CHOOSE k \in found : \A j \in found : k <= j])

\* extract_api_error without the look for an HTTP status
extract_api_error_plain(raw) ==
    LET idx == Find(raw, <<34, 101, 114, 114, 111, 114, 34, 58, 34>>)
    IN  IF ~IsSome(idx) THEN None
        ELSE LET start == Unwrap(idx) + 9
                 end == Find(Slice(raw, start, Len(raw)), <<34>>)
             IN  IF ~IsSome(end) THEN None
                 ELSE Some(Slice(raw, start, start + Unwrap(end)))

\* the text of the first "error":"<text>" token, with the HTTP status if any
extract_api_error(raw) ==
    \* "error":"
    LET idx == Find(raw, <<34, 101, 114, 114, 111, 114, 34, 58, 34>>)
    IN  IF ~IsSome(idx) THEN None
        ELSE LET start == Unwrap(idx) + 9
                 end == Find(Slice(raw, start, Len(raw)), <<34>>)
             IN  IF ~IsSome(end) THEN None
                 ELSE LET error == Slice(raw, start, start + Unwrap(end))
                          status == extract_http_status(raw)
                      IN  IF IsSome(status)
                          \* "{} (HTTP {})"
                          THEN Some(error \o <<32, 40, 72, 84, 84, 80, 32>>
                                          \o Unwrap(status) \o <<41>>)
                          ELSE Some(error)

\* extract_json_message without its limit of 80 bytes
extract_json_message_unbounded(raw) ==
    LET idx == Find(raw, <<34, 109, 101, 115, 115, 97, 103, 101, 34, 58, 34>>)
    IN  IF ~IsSome(idx) THEN None
        ELSE LET start == Unwrap(idx) + 11
                 end == Find(Slice(raw, start, Len(raw)), <<34>>)
             IN  IF ~IsSome(end) THEN None
                 ELSE LET msg == Slice(raw, start, start + Unwrap(end))
                      IN  IF msg # <<>> THEN Some(msg) ELSE None

\* the value of the first "message":"<text>" field, if 1..80 bytes long
extract_json_message(raw) ==
    \* "message":"
    LET idx == Find(raw, <<34, 109, 101, 115, 115, 97, 103, 101, 34, 58, 34>>)
    IN  IF ~IsSome(idx) THEN None
        ELSE LET start == Unwrap(idx) + 11
                 end == Find(Slice(raw, start, Len(raw)), <<34>>)
             IN  IF ~IsSome(end) THEN None
                 ELSE LET msg == Slice(raw, start, start + Unwrap(end))
                      IN  IF msg # <<>> /\ Len(msg) <= 80 THEN Some(msg) ELSE None

\* What an evaluation yields: a value, or a panic of the evaluating thread
Value(v) == [panicked |-> FALSE, value |-> v]
Panic == [panicked |-> TRUE, value |-> <<>>]

\* &raw[..57] followed by "...": panics unless byte 57 starts a character
truncate_raw(raw) ==
    IF IsCharBoundary(raw, 57)
    THEN Value(Slice(raw, 0, 57) \o <<46, 46, 46>>)
    ELSE Panic

\* clean_error_message with the timeout rule in front of the marker rule
clean_error_message_timeout_first(raw) ==
    IF Contains(raw, <<116, 105, 109, 101, 111, 117, 116>>)
    THEN Value(<<82, 101, 113, 117, 101, 115, 116, 32, 116, 105, 109, 101,
                 100, 32, 111, 117, 116>>)
    \* "codexbar failed"
    ELSE IF Contains(raw, <<99, 111, 100, 101, 120, 98, 97, 114, 32,
                            102, 97, 105, 108, 101, 100>>)
    THEN IF IsSome(extract_api_error(raw))
         THEN Value(Unwrap(extract_api_error(raw)))
         \* "No available fetch strategy"
         ELSE IF Contains(raw, <<78, 111, 32, 97, 118, 97, 105, 108, 97, 98,
                                 108, 101, 32, 102, 101, 116, 99, 104, 32, 115,
                                 116, 114, 97, 116, 101, 103, 121>>)
         THEN Value(<<78, 111, 32, 97, 118, 97, 105, 108, 97, 98,
                      108, 101, 32, 102, 101, 116, 99, 104, 32, 115,
                      116, 114, 97, 116, 101, 103, 121>>)
         ELSE IF IsSome(extract_json_message(raw))
         THEN Value(Unwrap(extract_json_message(raw)))
         \* "API request failed"
         ELSE Value(<<65, 80, 73, 32, 114, 101, 113, 117, 101, 115, 116, 32,
                      102, 97, 105, 108, 101, 100>>)
    \* "API returned" or "API error", with an extractable error text
    ELSE IF /\ \/ Contains(raw, <<65, 80, 73, 32, 114, 101, 116, 117, 114, 110, 101, 100>>)
               \/ Contains(raw, <<65, 80, 73, 32, 101, 114, 114, 111, 114>>)
            /\ IsSome(extract_api_error(raw))
    THEN Value(Unwrap(extract_api_error(raw)))
    \* ... or with a status only: "API error ({})"
    ELSE IF /\ \/ Contains(raw, <<65, 80, 73, 32, 114, 101, 116, 117, 114, 110, 101, 100>>)
               \/ Contains(raw, <<65, 80, 73, 32, 101, 114, 114, 111, 114>>)
            /\ IsSome(extract_http_status(raw))
    THEN Value(<<65, 80, 73, 32, 101, 114, 114, 111, 114, 32, 40>>
                 \o Unwrap(extract_http_status(raw)) \o <<41>>)
    ELSE IF Len(raw) <= 60
    THEN Value(raw)
    ELSE truncate_raw(raw)

clean_error_message(raw) ==
    \* "codexbar failed"
    IF Contains(raw, <<99, 111, 100, 101, 120, 98, 97, 114, 32,
                       102, 97, 105, 108, 101, 100>>)
    THEN IF IsSome(extract_api_error(raw))
         THEN Value(Unwrap(extract_api_error(raw)))
         \* "No available fetch strategy"
         ELSE IF Contains(raw, <<78, 111, 32, 97, 118, 97, 105, 108, 97, 98,
                                 108, 101, 32, 102, 101, 116, 99, 104, 32, 115,
                                 116, 114, 97, 116, 101, 103, 121>>)
         THEN Value(<<78, 111, 32, 97, 118, 97, 105, 108, 97, 98,
                      108, 101, 32, 102, 101, 116, 99, 104, 32, 115,
                      116, 114, 97, 116, 101, 103, 121>>)
         ELSE IF IsSome(extract_json_message(raw))
         THEN Value(Unwrap(extract_json_message(raw)))
         \* "API request failed"
         ELSE Value(<<65, 80, 73, 32, 114, 101, 113, 117, 101, 115, 116, 32,
                      102, 97, 105, 108, 101, 100>>)
    \* "timeout" -> "Request timed out"
    ELSE IF Contains(raw, <<116, 105, 109, 101, 111, 117, 116>>)
    THEN Value(<<82, 101, 113, 117, 101, 115, 116, 32, 116, 105, 109, 101,
                 100, 32, 111, 117, 116>>)
    \* "API returned" or "API error", with an extractable error text
    ELSE IF /\ \/ Contains(raw, <<65, 80, 73, 32, 114, 101, 116, 117, 114, 110, 101, 100>>)
               \/ Contains(raw, <<65, 80, 73, 32, 101, 114, 114, 111, 114>>)
            /\ IsSome(extract_api_error(raw))
    THEN Value(Unwrap(extract_api_error(raw)))
    \* ... or with a status only: "API error ({})"
    ELSE IF /\ \/ Contains(raw, <<65, 80, 73, 32, 114, 101, 116, 117, 114, 110, 101, 100>>)
               \/ Contains(raw, <<65, 80, 73, 32, 101, 114, 114, 111, 114>>)
            /\ IsSome(extract_http_status(raw))
    THEN Value(<<65, 80, 73, 32, 101, 114, 114, 111, 114, 32, 40>>
                 \o Unwrap(extract_http_status(raw)) \o <<41>>)
    ELSE IF Len(raw) <= 60
    THEN Value(raw)
    ELSE truncate_raw(raw)

\* ProviderFetchError::new; a panic of the classifier is a panic of the caller
ProviderFetchError_new(provider, raw_message) ==
    LET cleaned == clean_error_message(raw_message)
    IN  IF cleaned.panicked THEN Panic
        ELSE Value([provider |-> provider, message |-> cleaned.value,
                    raw |-> raw_message])

----------------------------------------------------------------------------
(* Provider registry and configuration                                     *)

\* PROVIDERS: name, provider_type, env_var, label, in registry order
PROVIDERS ==
    << \* codex / Codex
       [name |-> <<99, 111, 100, 101, 120>>, provider_type |-> "OAuth",
        env_var |-> None, label |-> <<67, 111, 100, 101, 120>>],
       \* claude / Claude
       [name |-> <<99, 108, 97, 117, 100, 101>>, provider_type |-> "OAuth",
        env_var |-> None, label |-> <<67, 108, 97, 117, 100, 101>>],
       \* zai / z.ai
       [name |-> <<122, 97, 105>>, provider_type |-> "Api",
        env_var |-> Some("ZAI_API_TOKEN"), label |-> <<122, 46, 97, 105>>],
       \* kimik2 / Kimi K2
       [name |-> <<107, 105, 109, 105, 107, 50>>, provider_type |-> "Api",
        env_var |-> Some("KIMI_K2_API_KEY"),
        label |-> <<75, 105, 109, 105, 32, 75, 50>>],
       \* copilot / Copilot
       [name |-> <<99, 111, 112, 105, 108, 111, 116>>, provider_type |-> "Api",
        env_var |-> Some("COPILOT_API_TOKEN"),
        label |-> <<67, 111, 112, 105, 108, 111, 116>>],
       \* minimax / MiniMax
       [name |-> <<109, 105, 110, 105, 109, 97, 120>>, provider_type |-> "Api",
        env_var |-> Some("MINIMAX_API_TOKEN"),
        label |-> <<77, 105, 110, 105, 77, 97, 120>>],
       \* kimi / Kimi
       [name |-> <<107, 105, 109, 105>>, provider_type |-> "Api",
        env_var |-> Some("KIMI_AUTH_TOKEN"), label |-> <<75, 105, 109, 105>>] >>

\* PROVIDERS.iter().find(|p| p.name == name)
get_provider_info(name) ==
    LET hits == {k \in 1..Len(PROVIDERS) : PROVIDERS[k].name = name}
    IN  IF hits = {} THEN None
        ELSE Some(PROVIDERS[CHOOSE k \in hits : \A j \in hits : k <= j])

provider_label(name) ==
    IF IsSome(get_provider_info(name))
    THEN Unwrap(get_provider_info(name)).label
    ELSE name

\* One push of enabled_providers for an OAuth provider
OAuthEntry(flag, name) ==
    \* flag.unwrap_or(false)
    IF IsSome(flag) /\ Unwrap(flag)
    THEN << [name |-> name, provider_type |-> "OAuth",
             api_key |-> None, env_var |-> None] >>
    ELSE <<>>

\* ApiEntry pushing the provider without the name of its variable
ApiEntry_unnamed(cfg, name, env_var) ==
    IF IsSome(cfg)
    THEN << [name |-> name, provider_type |-> "Api",
             api_key |-> Some(Unwrap(cfg).api_key), env_var |-> None] >>
    ELSE <<>>

\* One push of enabled_providers for an API-key provider
ApiEntry(cfg, name, env_var) ==
    IF IsSome(cfg)
    THEN << [name |-> name, provider_type |-> "Api",
             api_key |-> Some(Unwrap(cfg).api_key), env_var |-> Some(env_var)] >>
    ELSE <<>>

\* ProvidersConfig::enabled_providers
enabled_providers(self) ==
    OAuthEntry(self.codex, <<99, 111, 100, 101, 120>>)
    \o OAuthEntry(self.claude, <<99, 108, 97, 117, 100, 101>>)
    \o ApiEntry(self.zai, <<122, 97, 105>>, "ZAI_API_TOKEN")
    \o ApiEntry(self.kimik2, <<107, 105, 109, 105, 107, 50>>, "KIMI_K2_API_KEY")
    \o ApiEntry(self.copilot, <<99, 111, 112, 105, 108, 111, 116>>, "COPILOT_API_TOKEN")
    \o ApiEntry(self.minimax, <<109, 105, 110, 105, 109, 97, 120>>, "MINIMAX_API_TOKEN")
    \o ApiEntry(self.kimi, <<107, 105, 109, 105>>, "KIMI_AUTH_TOKEN")

\* is_enabled taking an OAuth flag that is present for one that is true
is_enabled_present(self, provider) ==
    CASE provider = <<99, 111, 100, 101, 120>> -> IsSome(self.codex)
      [] provider = <<99, 108, 97, 117, 100, 101>> -> IsSome(self.claude)
      [] provider = <<122, 97, 105>> -> IsSome(self.zai)
      [] provider = <<107, 105, 109, 105, 107, 50>> -> IsSome(self.kimik2)
      [] provider = <<99, 111, 112, 105, 108, 111, 116>> -> IsSome(self.copilot)
      [] provider = <<109, 105, 110, 105, 109, 97, 120>> -> IsSome(self.minimax)
      [] provider = <<107, 105, 109, 105>> -> IsSome(self.kimi)
      [] OTHER -> FALSE

\* ProvidersConfig::is_enabled
is_enabled(self, provider) ==
    CASE provider = <<99, 111, 100, 101, 120>> ->
             IsSome(self.codex) /\ Unwrap(self.codex)
      [] provider = <<99, 108, 97, 117, 100, 101>> ->
             IsSome(self.claude) /\ Unwrap(self.claude)
      [] provider = <<122, 97, 105>> -> IsSome(self.zai)
      [] provider = <<107, 105, 109, 105, 107, 50>> -> IsSome(self.kimik2)
      [] provider = <<99, 111, 112, 105, 108, 111, 116>> -> IsSome(self.copilot)
      [] provider = <<109, 105, 110, 105, 109, 97, 120>> -> IsSome(self.minimax)
      [] provider = <<107, 105, 109, 105>> -> IsSome(self.kimi)
      [] OTHER -> FALSE

\* TokenGaugeConfig::default().timeout_secs
timeout_secs == 2

----------------------------------------------------------------------------
(* JSON values as serde_json::Value, and the payload types read from them  *)

JNull == [t |-> "null", v |-> <<>>]
JStr(b) == [t |-> "str", v |-> b]
JNum(n) == [t |-> "num", v |-> n]
JArr(items) == [t |-> "arr", v |-> items]
\* fields: a record, field name -> value
JObj(fields) == [t |-> "obj", v |-> fields]

\* A field of an object as serde reads it: a missing field reads as null
Field(obj, key) == IF key \in DOMAIN obj.v THEN obj.v[key] ELSE JNull

\* Deserializers return None on a shape mismatch, Some(value) otherwise.
\* Option<T>: null (or missing) is None, anything else must read as T
\* (read is v as read by T's deserializer)
de_option(v, read) ==
    IF v.t = "null" THEN Some(None)
    ELSE IF IsSome(read) THEN Some(read)
    ELSE None

de_string(v) == IF v.t = "str" THEN Some(v.v) ELSE None

\* u8, u32, i32 and f64 fields: a number within the type's range (the
\* numbers of the model stay below 2^31, so u32 only excludes negatives and
\* i32 and f64 exclude nothing)
de_u8(v) == IF v.t = "num" /\ v.v >= 0 /\ v.v <= 255 THEN Some(v.v) ELSE None

de_u32(v) == IF v.t = "num" /\ v.v >= 0 THEN Some(v.v) ELSE None

de_i32(v) == IF v.t = "num" THEN Some(v.v) ELSE None

de_f64(v) == IF v.t = "num" THEN Some(v.v) ELSE None

\* UsageWindow (camelCase field names)
de_UsageWindow(v) ==
    IF v.t # "obj" THEN None
    ELSE LET used_percent == de_option(Field(v, "usedPercent"), de_u8(Field(v, "usedPercent")))
             reset_description == de_option(Field(v, "resetDescription"),
                                            de_string(Field(v, "resetDescription")))
             window_minutes == de_option(Field(v, "windowMinutes"),
                                         de_u32(Field(v, "windowMinutes")))
         IN  IF IsSome(used_percent) /\ IsSome(reset_description) /\ IsSome(window_minutes)
             THEN Some([used_percent |-> Unwrap(used_percent),
                        reset_description |-> Unwrap(reset_description),
                        window_minutes |-> Unwrap(window_minutes)])
             ELSE None

\* UsageSnapshot
de_UsageSnapshot(v) ==
    IF v.t # "obj" THEN None
    ELSE LET primary == de_option(Field(v, "primary"), de_UsageWindow(Field(v, "primary")))
             secondary == de_option(Field(v, "secondary"), de_UsageWindow(Field(v, "secondary")))
             updated_at == de_option(Field(v, "updatedAt"), de_string(Field(v, "updatedAt")))
         IN  IF IsSome(primary) /\ IsSome(secondary) /\ IsSome(updated_at)
             THEN Some([primary |-> Unwrap(primary), secondary |-> Unwrap(secondary),
                        updated_at |-> Unwrap(updated_at)])
             ELSE None

\* Credits
de_Credits(v) ==
    IF v.t # "obj" THEN None
    ELSE LET remaining == de_option(Field(v, "remaining"), de_f64(Field(v, "remaining")))
         IN  IF IsSome(remaining) THEN Some([remaining |-> Unwrap(remaining)])
             ELSE None

\* ProviderError
de_ProviderError(v) ==
    IF v.t # "obj" THEN None
    ELSE LET message == de_option(Field(v, "message"), de_string(Field(v, "message")))
             code == de_option(Field(v, "code"), de_i32(Field(v, "code")))
             kind == de_option(Field(v, "kind"), de_string(Field(v, "kind")))
         IN  IF IsSome(message) /\ IsSome(code) /\ IsSome(kind)
             THEN Some([message |-> Unwrap(message), code |-> Unwrap(code),
                        kind |-> Unwrap(kind)])
             ELSE None

\* ProviderPayload: provider is required, the rest optional
de_ProviderPayload(v) ==
    IF v.t # "obj" THEN None
    ELSE LET provider == de_string(Field(v, "provider"))
             version == de_option(Field(v, "version"), de_string(Field(v, "version")))
             source == de_option(Field(v, "source"), de_string(Field(v, "source")))
             usage == de_option(Field(v, "usage"), de_UsageSnapshot(Field(v, "usage")))
             credits == de_option(Field(v, "credits"), de_Credits(Field(v, "credits")))
             error == de_option(Field(v, "error"), de_ProviderError(Field(v, "error")))
         IN  IF /\ IsSome(provider) /\ IsSome(version) /\ IsSome(source)
                /\ IsSome(usage) /\ IsSome(credits) /\ IsSome(error)
             THEN Some([provider |-> Unwrap(provider), version |-> Unwrap(version),
                        source |-> Unwrap(source), usage |-> Unwrap(usage),
                        credits |-> Unwrap(credits), error |-> Unwrap(error)])
             ELSE None

\* ProviderPayload::has_error
has_error(self) == IsSome(self.error)

\* anyhow::Result<Vec<ProviderPayload>>; err is the error's to_string()
Ok(payloads) == [ok |-> TRUE, payloads |-> payloads, err |-> <<>>]
Err(msg) == [ok |-> FALSE, payloads |-> <<>>, err |-> msg]

\* serde_json::from_value::<Vec<ProviderPayload>>: every element must read
de_payload_list(items) ==
    IF \A k \in 1..Len(items) : IsSome(de_ProviderPayload(items[k]))
    THEN Some([k \in 1..Len(items) |-> Unwrap(de_ProviderPayload(items[k]))])
    ELSE None

parse_payload(value) ==
    IF value.t = "arr"
    THEN IF IsSome(de_payload_list(value.v))
         THEN Ok(Unwrap(de_payload_list(value.v)))
         \* "failed to parse provider payload list"
         ELSE Err(<<102, 97, 105, 108, 101, 100, 32, 116, 111, 32, 112, 97, 114,
                    115, 101, 32, 112, 114, 111, 118, 105, 100, 101, 114, 32, 112,
                    97, 121, 108, 111, 97, 100, 32, 108, 105, 115, 116>>)
    ELSE IF IsSome(de_ProviderPayload(value))
         THEN Ok(<<Unwrap(de_ProviderPayload(value))>>)
         \* "failed to parse provider payload"
         ELSE Err(<<102, 97, 105, 108, 101, 100, 32, 116, 111, 32, 112, 97, 114,
                    115, 101, 32, 112, 114, 111, 118, 105, 100, 101, 114, 32, 112,
                    97, 121, 108, 111, 97, 100>>)

----------------------------------------------------------------------------
(* What the external command prints, and serde_json's reading of it        *)

\* {"provider":"<p>","usage":{"primary":{"usedPercent":19}}}
DocGood(p) ==
    [text |-> <<123, 34, 112, 114, 111, 118, 105, 100, 101, 114, 34, 58, 34>> \o p
              \o <<34, 44, 34, 117, 115, 97, 103, 101, 34, 58, 123, 34, 112, 114,
                   105, 109, 97, 114, 121, 34, 58, 123, 34, 117, 115, 101, 100, 80,
                   101, 114, 99, 101, 110, 116, 34, 58, 49, 57, 125, 125, 125>>,
     value |-> JObj([provider |-> JStr(p),
                     usage |-> JObj([primary |-> JObj([usedPercent |-> JNum(19)])])])]

\* {"provider":"<p>","usage":{"primary":{"usedPercent":19}},"error":{"message":"<msg>"}}
DocError(p, msg) ==
    [text |-> <<123, 34, 112, 114, 111, 118, 105, 100, 101, 114, 34, 58, 34>> \o p
              \o <<34, 44, 34, 117, 115, 97, 103, 101, 34, 58, 123, 34, 112, 114,
                   105, 109, 97, 114, 121, 34, 58, 123, 34, 117, 115, 101, 100, 80,
                   101, 114, 99, 101, 110, 116, 34, 58, 49, 57, 125, 125, 44, 34,
                   101, 114, 114, 111, 114, 34, 58, 123, 34, 109, 101, 115, 115, 97,
                   103, 101, 34, 58, 34>> \o msg \o <<34, 125, 125>>,
     value |-> JObj([provider |-> JStr(p),
                     usage |-> JObj([primary |-> JObj([usedPercent |-> JNum(19)])]),
                     error |-> JObj([message |-> JStr(msg)])])]

\* {"provider":"kimi","error":{"code":1}}: an error without a message, under a
\* provider name that is not the one asked for
DocErrorNoMessage ==
    [text |-> <<123, 34, 112, 114, 111, 118, 105, 100, 101, 114, 34, 58, 34,
                107, 105, 109, 105, 34, 44, 34, 101, 114, 114, 111, 114, 34, 58,
                123, 34, 99, 111, 100, 101, 34, 58, 49, 125, 125>>,
     value |-> JObj([provider |-> JStr(<<107, 105, 109, 105>>),
                     error |-> JObj([code |-> JNum(1)])])]

\* "Rate limit exceeded"
ShortMessage ==
    <<82, 97, 116, 101, 32, 108, 105, 109, 105, 116, 32, 101, 120, 99, 101, 101,
      100, 101, 100>>

\* 56 times "a", then 3 times "é" (2 bytes each): 62 bytes, byte 57 inside a character
LongMessage == Repeat(<<97>>, 56) \o Repeat(<<195, 169>>, 3)

\* [<good>,<error: Rate limit exceeded>]
DocMixed(p) ==
    [text |-> <<91>> \o DocGood(p).text \o <<44>>
              \o DocError(p, ShortMessage).text \o <<93>>,
     value |-> JArr(<<DocGood(p).value, DocError(p, ShortMessage).value>>)]

\* {"error":"Unauthorized"}: JSON, but no payload
DocUnauthorized ==
    [text |-> <<123, 34, 101, 114, 114, 111, 114, 34, 58, 34, 85, 110, 97, 117,
                116, 104, 111, 114, 105, 122, 101, 100, 34, 125>>,
     value |-> JObj([error |-> JStr(<<85, 110, 97, 117, 116, 104, 111, 114, 105,
                                      122, 101, 100>>)])]

\* []
DocEmptyList == [text |-> <<91, 93>>, value |-> JArr(<<>>)]

\* "not valid json"
NotJsonText == <<110, 111, 116, 32, 118, 97, 108, 105, 100, 32, 106, 115, 111, 110>>

\* The JSON documents a child of provider p may print
DocumentsOf(p) ==
    <<DocGood(p), DocError(p, ShortMessage), DocError(p, LongMessage), DocMixed(p)>>

\* The JSON documents of the model
RECURSIVE DocumentsFrom(_)
DocumentsFrom(k) ==
    IF k > Len(PROVIDERS) THEN <<DocUnauthorized, DocErrorNoMessage, DocEmptyList>>
    ELSE DocumentsOf(PROVIDERS[k].name) \o DocumentsFrom(k + 1)

Documents == DocumentsFrom(1)

\* serde_json::from_slice::<Value>, tabulated: the value of a document of the
\* model, None for any other text (the other texts of the model are not JSON)
serde_json_from_slice(bytes) ==
    IF \E k \in 1..Len(Documents) : Documents[k].text = bytes
    THEN Some(Documents[CHOOSE k \in 1..Len(Documents) : Documents[k].text = bytes].value)
    ELSE None

\* A reading of the output that takes text that is not JSON for no payloads
parse_payload_bytes_lenient(bytes) ==
    IF IsSome(serde_json_from_slice(bytes))
    THEN parse_payload(Unwrap(serde_json_from_slice(bytes)))
    ELSE Ok(<<>>)

parse_payload_bytes(bytes) ==
    IF IsSome(serde_json_from_slice(bytes))
    THEN parse_payload(Unwrap(serde_json_from_slice(bytes)))
    \* "codexbar output was not JSON"
    ELSE Err(<<99, 111, 100, 101, 120, 98, 97, 114, 32, 111, 117, 116, 112, 117,
               116, 32, 119, 97, 115, 32, 110, 111, 116, 32, 74, 83, 79, 78>>)

\* io::Result<Output> of child.wait_with_output()
WaitOk(status, stdout, stderr) ==
    [ok |-> TRUE, status |-> status, stdout |-> stdout, stderr |-> stderr]
WaitErr == [ok |-> FALSE, status |-> 0, stdout |-> <<>>, stderr |-> <<>>]

\* What the child of provider p may end with
ChildOutputs(p) ==
    { WaitOk(0, DocGood(p).text, <<>>),
      WaitOk(0, DocMixed(p).text, <<>>),
      WaitOk(0, DocError(p, LongMessage).text, <<>>),
      WaitOk(0, NotJsonText, <<>>),
      \* stderr: "boom\n"
      WaitOk(1, DocErrorNoMessage.text, <<98, 111, 111, 109, 10>>),
      WaitOk(1, DocError(p, LongMessage).text, <<>>),
      WaitOk(1, DocUnauthorized.text, <<>>),
      WaitErr }

----------------------------------------------------------------------------
(* fetch_single_provider                                                   *)

\* A Command that is given the source "oauth" whatever the provider
build_command_oauth(provider) ==
    [provider |-> provider.name,
     source |-> "oauth",
     env |-> IF IsSome(provider.api_key) /\ IsSome(provider.env_var)
             THEN << <<Unwrap(provider.env_var), Unwrap(provider.api_key)>> >>
             ELSE <<>>]

\* The Command built for a provider: arguments and environment overlay
build_command(provider) ==
    [provider |-> provider.name,
     source |-> IF provider.provider_type = "OAuth" THEN "oauth" ELSE "api",
     env |-> IF IsSome(provider.api_key) /\ IsSome(provider.env_var)
             THEN << <<Unwrap(provider.env_var), Unwrap(provider.api_key)>> >>
             ELSE <<>>]

\* "failed to spawn codexbar for {name}"
spawn_error(provider) ==
    Err(<<102, 97, 105, 108, 101, 100, 32, 116, 111, 32, 115, 112, 97, 119, 110,
          32, 99, 111, 100, 101, 120, 98, 97, 114, 32, 102, 111, 114, 32>>
        \o provider.name)

\* timeout_error with its text reworded: "timed out after 2s"
timeout_error_reworded(timeout) ==
    Err(<<116, 105, 109, 101, 100, 32, 111, 117, 116, 32, 97, 102, 116, 101, 114, 32>>
        \o Digits(timeout) \o <<115>>)

\* "timeout after {:?}" of Duration::from_secs(timeout): "timeout after 2s"
timeout_error(timeout) ==
    Err(<<116, 105, 109, 101, 111, 117, 116, 32, 97, 102, 116, 101, 114, 32>>
        \o Digits(timeout) \o <<115>>)

\* A failure text that takes its detail from stdout before stderr
failed_error_stdout_first(status, stderr, stdout) ==
    LET detail == IF Trim(stdout) # <<>> THEN Trim(stdout)
                  ELSE IF Trim(stderr) # <<>> THEN Trim(stderr)
                  ELSE <<110, 111, 32, 101, 114, 114, 111, 114, 32, 111, 117, 116,
                         112, 117, 116>>
    IN  Err(<<99, 111, 100, 101, 120, 98, 97, 114, 32, 102, 97, 105, 108, 101, 100,
              32, 40>>
            \o <<101, 120, 105, 116, 32, 115, 116, 97, 116, 117, 115, 58, 32>>
            \o Digits(status) \o <<41, 32, 45, 32>> \o detail)

\* "codexbar failed ({status}) - {detail}", status shown as "exit status: N"
failed_error(status, stderr, stdout) ==
    LET detail == IF Trim(stderr) # <<>> THEN Trim(stderr)
                  ELSE IF Trim(stdout) # <<>> THEN Trim(stdout)
                  \* "no error output"
                  ELSE <<110, 111, 32, 101, 114, 114, 111, 114, 32, 111, 117, 116,
                         112, 117, 116>>
    IN  Err(<<99, 111, 100, 101, 120, 98, 97, 114, 32, 102, 97, 105, 108, 101, 100,
              32, 40>>
            \o <<101, 120, 105, 116, 32, 115, 116, 97, 116, 117, 115, 58, 32>>
            \o Digits(status) \o <<41, 32, 45, 32>> \o detail)

\* fetch_single_provider from the point where recv_timeout has handed over the
\* helper thread's message
fetch_single_provider_received(provider, waited) ==
    IF ~waited.ok
    \* "failed to run codexbar for {name}"
    THEN Err(<<102, 97, 105, 108, 101, 100, 32, 116, 111, 32, 114, 117, 110, 32,
               99, 111, 100, 101, 120, 98, 97, 114, 32, 102, 111, 114, 32>>
             \o provider.name)
    ELSE IF waited.status # 0
    THEN IF parse_payload_bytes(waited.stdout).ok
         THEN Ok(parse_payload_bytes(waited.stdout).payloads)
         ELSE failed_error(waited.status, waited.stderr, waited.stdout)
    ELSE parse_payload_bytes(waited.stdout)

----------------------------------------------------------------------------
(* Row projection                                                          *)

\* used taken as it is, without min(100)
min100_unclamped(used) == used

\* used.min(100)
min100(used) == IF used < 100 THEN used ELSE 100

\* (used, minutes, reset); "—" is <<226, 128, 148>>
format_window(window) ==
    IF IsSome(window)
    THEN [used |-> IF IsSome(Unwrap(window).used_percent)
                   THEN Some(min100(Unwrap(Unwrap(window).used_percent)))
                   ELSE None,
          minutes |-> Unwrap(window).window_minutes,
          reset |-> IF IsSome(Unwrap(window).reset_description)
                    THEN Unwrap(Unwrap(window).reset_description)
                    ELSE <<226, 128, 148>>]
    ELSE [used |-> None, minutes |-> None, reset |-> <<226, 128, 148>>]

\* "{version} ({source})", either one alone, or "—"
format_source(version, source) ==
    IF IsSome(version) /\ IsSome(source)
    THEN Unwrap(version) \o <<32, 40>> \o Unwrap(source) \o <<41>>
    ELSE IF IsSome(version) THEN Unwrap(version)
    ELSE IF IsSome(source) THEN Unwrap(source)
    ELSE <<226, 128, 148>>

\* The row of one payload.  Its credits and updated columns (float and local
\* time formatting) are left out: nothing below reads them.
provider_to_row(payload) ==
    LET session == format_window(IF IsSome(payload.usage)
                                 THEN Unwrap(payload.usage).primary ELSE None)
        weekly == format_window(IF IsSome(payload.usage)
                                THEN Unwrap(payload.usage).secondary ELSE None)
    IN  [provider |-> provider_label(payload.provider),
         session_used |-> session.used,
         session_window_minutes |-> session.minutes,
         session_reset |-> session.reset,
         weekly_used |-> weekly.used,
         weekly_window_minutes |-> weekly.minutes,
         weekly_reset |-> weekly.reset,
         source |-> format_source(payload.version, payload.source)]

\* .filter(|payload| !payload.has_error())
no_error(payload) == ~has_error(payload)

\* A projection that keeps every payload
payload_to_rows_unfiltered(payloads) ==
    [k \in 1..Len(payloads) |-> provider_to_row(payloads[k])]

payload_to_rows(payloads) ==
    LET kept == SelectSeq(payloads, no_error)
    IN  [k \in 1..Len(kept) |-> provider_to_row(kept[k])]

----------------------------------------------------------------------------
(* The fetch orchestration as a state machine                              *)

VARIABLES
    config,        \* the TokenGaugeConfig of this run (its providers section)
    pc,            \* where the thread calling fetch_all_providers is
    w,             \* per enabled provider: its worker thread, child and channel
    joined,        \* how many handles the join loop has consumed
    payloads,      \* fetch_all_providers' local payloads, then FetchResult.payloads
    errors,        \* fetch_all_providers' local errors, then FetchResult.errors
    now,           \* the clock, in seconds
    overtaken,     \* history: a worker ended before one spawned earlier had
    projected,     \* the payload list the display surface handed to payload_to_rows
    rows,          \* the rows it got
    call,          \* one call of a function of the core: its arguments and its result
    cache,         \* the cache file: None while it does not exist
    surface,       \* one refresh of a display surface: where it is and what it did
    tui            \* the terminal dashboard's event loop and its refresh threads

\* What the fetch orchestration leaves alone
others == <<call, cache, surface, tui>>

vars == <<config, pc, w, joined, payloads, errors, now, overtaken, projected, rows,
          call, cache, surface, tui>>

\* Bounds of the model: how many providers a configuration enables at most,
\* and how long a cached payload list is at most
MaxEnabled == 2
MaxCached == 2

\* The API keys of the model's configurations: "sk-1", and "sk-2" for a run
\* that differs in the key alone
ApiKey == <<115, 107, 45, 49>>
ApiKeys == {ApiKey, <<115, 107, 45, 50>>}

\* The ProvidersConfig values of the model: codex, claude and zai take every
\* value their type has, the other API providers are absent
FetchConfigs ==
    {c \in [codex : {None, Some(TRUE), Some(FALSE)},
            claude : {None, Some(TRUE), Some(FALSE)},
            zai : {None} \cup {Some([api_key |-> k]) : k \in ApiKeys},
            kimik2 : {None}, copilot : {None}, minimax : {None}, kimi : {None}] :
        Len(enabled_providers(c)) <= MaxEnabled}

\* let enabled = config.providers.enabled_providers();
enabled == enabled_providers(config.providers)

\* A worker that fetch_all_providers has not spawned yet
NewWorker ==
    [st |-> "unspawned",     \* unspawned, ready, receiving, finished, panicked
     result |-> Ok(<<>>),    \* what fetch_single_provider returned, once finished
     invocations |-> <<>>,   \* the commands this worker spawned
     child |-> "none",       \* none, running, exited (the helper holds waited), reaped
     waited |-> None,        \* what wait_with_output returned to the helper
     chan |-> None,          \* the message in the one-shot channel
     deadline |-> 0]         \* when recv_timeout gives up

Init ==
    /\ config \in [providers : FetchConfigs]
    /\ pc = "idle"
    /\ w = [i \in 1..Len(enabled_providers(config.providers)) |-> NewWorker]
    /\ joined = 0
    /\ payloads = <<>>
    /\ errors = <<>>
    /\ now = 0
    /\ overtaken = FALSE
    /\ projected = <<>>
    /\ rows = <<>>
    /\ call = None
    /\ cache = None
    /\ surface = None
    /\ tui = None

\* A start that reports a configuration without providers as an error
FetchAllStartStrict ==
    /\ pc = "idle"
    /\ pc' = IF enabled = <<>> THEN "returned" ELSE "spawning"
    /\ errors' = IF enabled = <<>>
                 THEN << [provider |-> <<>>, message |-> <<>>, raw |-> <<>>] >>
                 ELSE errors
    /\ UNCHANGED <<config, w, joined, payloads, now, overtaken, projected, rows, others>>

\* fetch_all_providers up to the early return
FetchAllStart ==
    /\ pc = "idle"
    /\ pc' = IF enabled = <<>> THEN "returned" ELSE "spawning"
    /\ UNCHANGED <<config, w, joined, payloads, errors, now, overtaken, projected, rows, others>>

\* A fetch that runs the providers one after the other: the next worker is
\* spawned once the workers before it have ended
SpawnWorkerSerial ==
    /\ pc = "spawning"
    /\ LET i == CHOOSE k \in 1..Len(w) :
                    w[k].st = "unspawned" /\ \A j \in 1..(k - 1) : w[j].st # "unspawned"
       IN  /\ \A j \in 1..(i - 1) : w[j].st \in {"finished", "panicked"}
           /\ w' = [w EXCEPT ![i].st = "ready"]
           /\ pc' = IF i = Len(w) THEN "joining" ELSE "spawning"
    /\ UNCHANGED <<config, joined, payloads, errors, now, overtaken, projected, rows, others>>

\* One thread::spawn of the map over enabled; the handle is collected
SpawnWorker ==
    /\ pc = "spawning"
    /\ LET i == CHOOSE k \in 1..Len(w) :
                    w[k].st = "unspawned" /\ \A j \in 1..(k - 1) : w[j].st # "unspawned"
       IN  /\ w' = [w EXCEPT ![i].st = "ready"]
           /\ pc' = IF i = Len(w) THEN "joining" ELSE "spawning"
    /\ UNCHANGED <<config, joined, payloads, errors, now, overtaken, projected, rows, others>>

\* Worker i's thread ends while the thread of a worker spawned before it runs on
EndsEarly(i) == \E k \in 1..(i - 1) : w[k].st \notin {"finished", "panicked"}

\* A worker that spawns the command a second time when the first spawn failed
CommandSpawnFailsRetry(i) ==
    /\ w[i].st = "ready"
    /\ w' = [w EXCEPT ![i].st = IF w[i].invocations = <<>> THEN "ready" ELSE "finished",
                      ![i].invocations = Append(@, build_command(enabled[i])),
                      ![i].result = spawn_error(enabled[i])]
    /\ overtaken' = (overtaken \/ (w[i].invocations # <<>> /\ EndsEarly(i)))
    /\ UNCHANGED <<config, pc, joined, payloads, errors, now, projected, rows, others>>

\* Worker i: command.spawn() fails, fetch_single_provider returns the error
CommandSpawnFails(i) ==
    /\ w[i].st = "ready"
    /\ w' = [w EXCEPT ![i].st = "finished",
                      ![i].invocations = Append(@, build_command(enabled[i])),
                      ![i].result = spawn_error(enabled[i])]
    /\ overtaken' = (overtaken \/ EndsEarly(i))
    /\ UNCHANGED <<config, pc, joined, payloads, errors, now, projected, rows, others>>

\* Worker i: the child runs, the helper thread is started, recv_timeout begins
CommandSpawned(i) ==
    /\ w[i].st = "ready"
    /\ w' = [w EXCEPT ![i].st = "receiving",
                      ![i].invocations = Append(@, build_command(enabled[i])),
                      ![i].child = "running",
                      ![i].deadline = now + timeout_secs]
    /\ UNCHANGED <<config, pc, joined, payloads, errors, now, overtaken, projected, rows, others>>

\* Worker i: the child runs, but thread::spawn of the helper panics (the OS
\* refuses a thread); the worker thread ends by panic, the child is left alone
HelperSpawnPanics(i) ==
    /\ w[i].st = "ready"
    /\ w' = [w EXCEPT ![i].st = "panicked",
                      ![i].invocations = Append(@, build_command(enabled[i])),
                      ![i].child = "running"]
    /\ overtaken' = (overtaken \/ EndsEarly(i))
    /\ UNCHANGED <<config, pc, joined, payloads, errors, now, projected, rows, others>>

\* Helper of worker i: child.wait_with_output() returns
ChildExits(i) ==
    /\ w[i].child = "running"
    /\ w[i].st # "panicked"
    /\ \E out \in ChildOutputs(enabled[i].name) :
           w' = [w EXCEPT ![i].child = "exited", ![i].waited = Some(out)]
    /\ UNCHANGED <<config, pc, joined, payloads, errors, now, overtaken, projected, rows, others>>

\* Helper of worker i: let _ = tx.send(result); a send to a dropped receiver
\* fails and is ignored
HelperSends(i) ==
    /\ w[i].child = "exited"
    /\ w' = [w EXCEPT ![i].child = "reaped",
                      ![i].chan = IF w[i].st = "receiving" THEN w[i].waited ELSE @]
    /\ UNCHANGED <<config, pc, joined, payloads, errors, now, overtaken, projected, rows, others>>

\* Worker i: recv_timeout returns the message
Receive(i) ==
    /\ w[i].st = "receiving"
    /\ IsSome(w[i].chan)
    /\ w' = [w EXCEPT ![i].st = "finished",
                      ![i].chan = None,
                      ![i].result =
                          fetch_single_provider_received(enabled[i], Unwrap(w[i].chan))]
    /\ overtaken' = (overtaken \/ EndsEarly(i))
    /\ UNCHANGED <<config, pc, joined, payloads, errors, now, projected, rows, others>>

\* A recv_timeout that gives up at its deadline whether or not a message came
RecvTimeoutEager(i) ==
    /\ w[i].st = "receiving"
    /\ now >= w[i].deadline
    /\ w' = [w EXCEPT ![i].st = "finished",
                      ![i].result = timeout_error(timeout_secs)]
    /\ overtaken' = (overtaken \/ EndsEarly(i))
    /\ UNCHANGED <<config, pc, joined, payloads, errors, now, projected, rows, others>>

\* A recv_timeout that, giving up, kills the child and waits for it
RecvTimeoutKills(i) ==
    /\ w[i].st = "receiving"
    /\ ~IsSome(w[i].chan)
    /\ now >= w[i].deadline
    /\ w' = [w EXCEPT ![i].st = "finished",
                      ![i].child = "reaped",
                      ![i].result = timeout_error(timeout_secs)]
    /\ overtaken' = (overtaken \/ EndsEarly(i))
    /\ UNCHANGED <<config, pc, joined, payloads, errors, now, projected, rows, others>>

\* Worker i: recv_timeout finds no message by its deadline
RecvTimeout(i) ==
    /\ w[i].st = "receiving"
    /\ ~IsSome(w[i].chan)
    /\ now >= w[i].deadline
    /\ w' = [w EXCEPT ![i].st = "finished",
                      ![i].result = timeout_error(timeout_secs)]
    /\ overtaken' = (overtaken \/ EndsEarly(i))
    /\ UNCHANGED <<config, pc, joined, payloads, errors, now, projected, rows, others>>

\* The message of the error one payload with an error descriptor becomes
payload_error_message(payload) ==
    IF IsSome(Unwrap(payload.error).message)
    THEN Unwrap(Unwrap(payload.error).message)
    \* "Unknown error"
    ELSE <<85, 110, 107, 110, 111, 119, 110, 32, 101, 114, 114, 111, 114>>

\* One iteration of the join loop over a worker that returned: what it appends
\* to payloads and to errors, or the panic of the classifier
collect_result(provider_name, result) ==
    IF result.ok
    THEN LET bad == SelectSeq(result.payloads, has_error)
             made == [k \in 1..Len(bad) |->
                         ProviderFetchError_new(provider_name,
                                                payload_error_message(bad[k]))]
         IN  IF \E k \in 1..Len(made) : made[k].panicked THEN Panic
             ELSE Value([payloads |-> SelectSeq(result.payloads, no_error),
                         errors |-> [k \in 1..Len(made) |-> made[k].value]])
    ELSE LET made == ProviderFetchError_new(provider_name, result.err)
         IN  IF made.panicked THEN Panic
             ELSE Value([payloads |-> <<>>, errors |-> <<made.value>>])

\* One iteration of the join loop over a worker that panicked
\* provider "unknown", message and raw "thread panicked"
collect_panicked ==
    Value([payloads |-> <<>>,
           errors |-> << [provider |-> <<117, 110, 107, 110, 111, 119, 110>>,
                          message |-> <<116, 104, 114, 101, 97, 100, 32, 112, 97,
                                        110, 105, 99, 107, 101, 100>>,
                          raw |-> <<116, 104, 114, 101, 97, 100, 32, 112, 97,
                                    110, 105, 99, 107, 101, 100>>] >>])

\* A join loop that puts what each worker brought in front of what it has
JoinWorkerInFront ==
    /\ pc = "joining"
    /\ w[joined + 1].st \in {"finished", "panicked"}
    /\ LET i == joined + 1
           got == IF w[i].st = "panicked" THEN collect_panicked
                  ELSE collect_result(enabled[i].name, w[i].result)
       IN  IF got.panicked
           THEN /\ pc' = "panicked"
                /\ UNCHANGED <<joined, payloads, errors>>
           ELSE /\ payloads' = got.value.payloads \o payloads
                /\ errors' = got.value.errors \o errors
                /\ joined' = i
                /\ pc' = IF i = Len(w) THEN "returned" ELSE "joining"
    /\ UNCHANGED <<config, w, now, overtaken, projected, rows, others>>

\* handle.join() of the next handle and the match on its outcome; after the
\* last handle fetch_all_providers returns FetchResult { payloads, errors }
JoinWorker ==
    /\ pc = "joining"
    /\ w[joined + 1].st \in {"finished", "panicked"}
    /\ LET i == joined + 1
           got == IF w[i].st = "panicked" THEN collect_panicked
                  ELSE collect_result(enabled[i].name, w[i].result)
       IN  IF got.panicked
           THEN /\ pc' = "panicked"
                /\ UNCHANGED <<joined, payloads, errors>>
           ELSE /\ payloads' = payloads \o got.value.payloads
                /\ errors' = errors \o got.value.errors
                /\ joined' = i
                /\ pc' = IF i = Len(w) THEN "returned" ELSE "joining"
    /\ UNCHANGED <<config, w, now, overtaken, projected, rows, others>>

\* The display surface projects the fetched payloads
ProjectFetched ==
    /\ pc = "returned"
    /\ projected' = payloads
    /\ rows' = payload_to_rows(payloads)
    /\ pc' = "shown"
    /\ UNCHANGED <<config, w, joined, payloads, errors, now, overtaken, others>>

\* The payloads a cache file may hold: whatever a snapshot written earlier, in
\* either layout, held
CachedPayloads ==
    {Unwrap(de_ProviderPayload(DocGood(<<99, 111, 100, 101, 120>>).value)),
     Unwrap(de_ProviderPayload(DocGood(<<122, 97, 105>>).value)),
     Unwrap(de_ProviderPayload(DocError(<<99, 108, 97, 117, 100, 101>>, ShortMessage).value)),
     Unwrap(de_ProviderPayload(DocErrorNoMessage.value))}

\* The display surface serves the cache instead of fetching, and projects it
ProjectCached ==
    /\ pc = "idle"
    /\ \E n \in 0..MaxCached : \E cached \in [1..n -> CachedPayloads] :
           /\ projected' = cached
           /\ rows' = payload_to_rows(cached)
    /\ pc' = "served"
    /\ UNCHANGED <<config, w, joined, payloads, errors, now, overtaken, others>>

\* Some thread can take a step now: the caller (before and between spawns, at
\* a join whose worker has ended, after the return), a worker that has yet to
\* spawn its command or whose recv_timeout can return, a helper with a result
Runnable ==
    \/ ENABLED FetchAllStart
    \/ ENABLED SpawnWorker
    \/ pc = "joining" /\ w[joined + 1].st \in {"finished", "panicked"}
    \/ pc = "returned"
    \/ \E i \in 1..Len(w) :
           \/ w[i].st = "ready"
           \/ w[i].child = "exited"
           \/ w[i].st = "receiving" /\ (IsSome(w[i].chan) \/ now >= w[i].deadline)

\* A second passes: only while some recv_timeout waits and no thread can run
\* (a running thread takes no time on the clock's scale)
Tick ==
    /\ \E i \in 1..Len(w) : w[i].st = "receiving"
    /\ ~Runnable
    /\ now' = now + 1
    /\ UNCHANGED <<config, pc, w, joined, payloads, errors, overtaken, projected, rows, others>>

Next ==
    \/ FetchAllStart
    \/ SpawnWorker
    \/ JoinWorker
    \/ ProjectFetched
    \/ ProjectCached
    \/ Tick
    \/ \E i \in 1..Len(w) : CommandSpawnFails(i)
    \/ \E i \in 1..Len(w) : CommandSpawned(i)
    \/ \E i \in 1..Len(w) : HelperSpawnPanics(i)
    \/ \E i \in 1..Len(w) : ChildExits(i)
    \/ \E i \in 1..Len(w) : HelperSends(i)
    \/ \E i \in 1..Len(w) : Receive(i)
    \/ \E i \in 1..Len(w) : RecvTimeout(i)

Spec == Init /\ [][Next]_vars

----------------------------------------------------------------------------
(* One call of fetch_single_provider, from the child's completion on       *)

\* TokenGaugeConfig::default().providers: codex and claude
DefaultProviders ==
    [codex |-> Some(TRUE), claude |-> Some(TRUE), zai |-> None, kimik2 |-> None,
     copilot |-> None, minimax |-> None, kimi |-> None]

\* No fetch is under way: the default configuration, nothing fetched or shown
FetchIdle ==
    /\ config = [providers |-> DefaultProviders]
    /\ pc = "idle"
    /\ w = [i \in 1..Len(enabled_providers(DefaultProviders)) |-> NewWorker]
    /\ joined = 0
    /\ payloads = <<>>
    /\ errors = <<>>
    /\ overtaken = FALSE
    /\ projected = <<>>
    /\ rows = <<>>

\* The provider of the call: claude, enabled
CallProvider == OAuthEntry(Some(TRUE), <<99, 108, 97, 117, 100, 101>>)[1]

\* What the child may have written to stdout: the documents of the provider,
\* a document that is no payload, an empty list, text that is not JSON with
\* and without white space around it, white space, nothing
CallStdouts ==
    {DocGood(CallProvider.name).text, DocError(CallProvider.name, ShortMessage).text,
     DocMixed(CallProvider.name).text, DocUnauthorized.text, DocEmptyList.text,
     NotJsonText, <<32>> \o NotJsonText \o <<10>>, <<32, 10>>, <<>>}

\* What it may have written to stderr: nothing, white space, "boom\n", " boom"
CallStderrs ==
    {<<>>, <<32, 10>>, <<98, 111, 111, 109, 10>>, <<32, 98, 111, 111, 109>>}

\* Its exit statuses
CallStatuses == {0, 1, 2}

CallInit ==
    /\ call \in [provider : {CallProvider},
                  waited : {WaitOk(st, out, err) : st \in CallStatuses,
                                                   out \in CallStdouts,
                                                   err \in CallStderrs},
                  result : {None}]
    /\ FetchIdle
    /\ now = 0
    /\ cache = None /\ surface = None /\ tui = None

\* recv_timeout hands over the child's completion; fetch_single_provider returns
CallReturns ==
    /\ call.result = None
    /\ call' = [call EXCEPT
                    !.result = Some(fetch_single_provider_received(call.provider,
                                                                   call.waited))]
    /\ UNCHANGED <<config, pc, w, joined, payloads, errors, now, overtaken,
                   projected, rows, cache, surface, tui>>

CallNext == CallReturns

CallSpec == CallInit /\ [][CallNext]_vars

\* The call has returned
CallDone == IsSome(call.result)

\* The texts of CallStdouts that are JSON, and those that are a payload or a
\* list of payloads
CallJsonTexts ==
    {DocGood(CallProvider.name).text, DocError(CallProvider.name, ShortMessage).text,
     DocMixed(CallProvider.name).text, DocUnauthorized.text, DocEmptyList.text}
CallPayloadTexts == CallJsonTexts \ {DocUnauthorized.text}

\* A text of white space only
Blank(t) == \A k \in 1..Len(t) : t[k] \in {9, 10, 11, 12, 13, 32}

\* d is t without the white space at its ends
TrimmedTo(t, d) ==
    /\ d # <<>>
    /\ ~Blank(<<d[1]>>) /\ ~Blank(<<d[Len(d)]>>)
    /\ \E a \in 0..Len(t) :
           /\ a + Len(d) <= Len(t)
           /\ SubSeq(t, a + 1, a + Len(d)) = d
           /\ Blank(SubSeq(t, 1, a))
           /\ Blank(SubSeq(t, a + Len(d) + 1, Len(t)))

\* "codexbar failed (exit status: N) - " for a one-digit N
FailedPrefix(status) ==
    <<99, 111, 100, 101, 120, 98, 97, 114, 32, 102, 97, 105, 108, 101, 100, 32,
      40, 101, 120, 105, 116, 32, 115, 116, 97, 116, 117, 115, 58, 32,
      48 + status, 41, 32, 45, 32>>

\* The failure of the call carries the exit status and, as detail, stderr
\* trimmed if that is not empty, else stdout trimmed if that is not empty,
\* else "no error output"
CarriesStatusAndDetail ==
    LET err == Unwrap(call.result).err
        head == FailedPrefix(call.waited.status)
        detail == SubSeq(err, Len(head) + 1, Len(err))
    IN  /\ Len(err) >= Len(head)
        /\ SubSeq(err, 1, Len(head)) = head
        /\ IF ~Blank(call.waited.stderr) THEN TrimmedTo(call.waited.stderr, detail)
           ELSE IF ~Blank(call.waited.stdout) THEN TrimmedTo(call.waited.stdout, detail)
           ELSE detail = <<110, 111, 32, 101, 114, 114, 111, 114, 32, 111, 117, 116,
                           112, 117, 116>>

\* C11 (as the code has it): a non-zero exit becomes a fetch failure exactly
\* when standard output does not parse as a payload or a list of payloads, be
\* it JSON or not; the failure then carries the exit status and, as detail,
\* stderr if it is not empty after trimming, else stdout if it is not empty
\* after trimming, else "no error output"
C11_FailureOnlyWithoutPayloads ==
    (CallDone /\ call.waited.status # 0) =>
        /\ Unwrap(call.result).ok <=> call.waited.stdout \in CallPayloadTexts
        /\ ~Unwrap(call.result).ok => CarriesStatusAndDetail

\* C11 happens: exit status 1, standard output is JSON but no payload, stderr
\* is white space; the call failed, with the document as its detail
C11_Witness ==
    /\ CallDone
    /\ call.waited = WaitOk(1, DocUnauthorized.text, <<32, 10>>)
    /\ Unwrap(call.result).err = FailedPrefix(1) \o DocUnauthorized.text

\* C11 (as stated): a non-zero exit becomes a fetch failure only if standard
\* output is not parseable JSON, and the failure carries status and detail
C11_FailureOnlyWithoutJson ==
    (CallDone /\ call.waited.status # 0 /\ ~Unwrap(call.result).ok) =>
        /\ call.waited.stdout \notin CallJsonTexts
        /\ CarriesStatusAndDetail

----------------------------------------------------------------------------
(* Properties of the fetch orchestration                                   *)

\* fetch_all_providers has returned its FetchResult
Returned == pc \in {"returned", "shown"}

\* The call of fetch_all_providers is over: it returned, or it unwound
Ended == Returned \/ pc = "panicked"

\* Worker i's fetch_single_provider returned Err
FetchFailed(i) == w[i].st = "finished" /\ ~w[i].result.ok

\* Worker i's fetch_single_provider returned Ok
FetchSucceeded(i) == w[i].st = "finished" /\ w[i].result.ok

\* The positions of the errors tagged with a provider name
ErrorsTagged(name) == {k \in 1..Len(errors) : errors[k].provider = name}

\* The error-free payloads of the workers from i on whose fetch returned Ok,
\* in worker order
RECURSIVE GoodPayloadsFrom(_)
GoodPayloadsFrom(i) ==
    IF i > Len(w) THEN <<>>
    ELSE (IF FetchSucceeded(i)
          THEN SelectSeq(w[i].result.payloads, no_error) ELSE <<>>)
         \o GoodPayloadsFrom(i + 1)

\* C1: whatever the providers' outcomes, once the call is over every provider
\* whose fetch failed has exactly one error in the returned result, tagged
\* with its name and carrying the failure's text, and the payloads are exactly
\* the error-free payloads of the providers whose fetch succeeded
C1_FailureIsolated ==
    \A i \in 1..Len(w) :
        (Ended /\ FetchFailed(i)) =>
            /\ Returned
            /\ Cardinality(ErrorsTagged(enabled[i].name)) = 1
            /\ \A k \in ErrorsTagged(enabled[i].name) : errors[k].raw = w[i].result.err
            /\ payloads = GoodPayloadsFrom(1)

\* C2: no error condition aborts the orchestration: whatever message text a
\* child's payload carries, the caller never unwinds out of the join loop
C2_NeverAborts == pc # "panicked"

\* C3: the providers' timeouts are independent. The clock starts at 0 with the
\* call; the call is never still waiting, and has never returned, later than
\* one per-provider timeout after that (the total wait is the maximum of the
\* waits, not their sum), and every provider's wait runs from the start of the
\* call, not from the end of another provider's wait
C3_TimeoutsIndependent ==
    /\ now <= timeout_secs
    /\ \A i \in 1..Len(w) :
           (w[i].st \in {"receiving", "finished"} /\ w[i].child # "none")
               => w[i].deadline = timeout_secs

\* C3 happens: the first provider's child never exits and its fetch times out,
\* the second provider's outcome was there before that, and the call returned
\* one timeout after it started
C3_Witness ==
    /\ Returned
    /\ Len(w) = 2
    /\ w[1].child = "running" /\ w[1].result = timeout_error(timeout_secs)
    /\ FetchSucceeded(2)
    /\ overtaken
    /\ now = timeout_secs

\* The join loop unwound while it handled worker i's handle
AbortedAt(i) == pc = "panicked" /\ joined = i - 1

\* The join loop has come to worker i's handle
Handled(i) == joined >= i \/ AbortedAt(i)

\* How many error-free payloads the workers before i delivered
GoodPayloadsBefore(i) == Len(GoodPayloadsFrom(1)) - Len(GoodPayloadsFrom(i))

\* C4: when the join loop handles a provider whose fetch succeeded with N
\* payloads, it adds N entries: one error per payload with an error descriptor,
\* tagged with the enabled provider's name and carrying the descriptor's
\* message ("Unknown error" without one), and every other payload, unchanged
\* and in order, to the payloads
C4_EveryPayloadAccounted ==
    \A i \in 1..Len(w) :
        (FetchSucceeded(i) /\ Handled(i)) =>
            LET all == w[i].result.payloads
                bad == SelectSeq(all, LAMBDA p : IsSome(p.error))
                good == SelectSeq(all, LAMBDA p : ~IsSome(p.error))
                tagged == SelectSeq(errors, LAMBDA e : e.provider = enabled[i].name)
                first == GoodPayloadsBefore(i)
            IN  /\ ~AbortedAt(i)
                /\ Len(tagged) + Len(good) = Len(all)
                /\ Len(tagged) = Len(bad)
                /\ \A k \in 1..Len(bad) :
                       tagged[k].raw =
                           IF IsSome(bad[k].error[1].message)
                           THEN bad[k].error[1].message[1]
                           \* "Unknown error"
                           ELSE <<85, 110, 107, 110, 111, 119, 110, 32, 101, 114,
                                  114, 111, 114>>
                /\ SubSeq(payloads, first + 1, first + Len(good)) = good

\* C5: a payload with an error descriptor reaches no successful aggregation
\* path. No payload that fetch_all_providers collects has an error descriptor;
\* and the rows payload_to_rows made of a payload list, fetched or cached, are
\* the rows of its payloads without an error descriptor, one each and in the
\* list's order, with no row for a payload that has one
C5_ErrorPayloadsExcluded ==
    /\ \A k \in 1..Len(payloads) : ~IsSome(payloads[k].error)
    /\ pc \in {"shown", "served"} =>
           LET kept == {k \in 1..Len(projected) : ~IsSome(projected[k].error)}
               nth(j) == CHOOSE k \in kept : Cardinality({m \in kept : m < k}) = j - 1
           IN  /\ Len(rows) = Cardinality(kept)
               /\ \A j \in 1..Len(rows) : rows[j] = provider_to_row(projected[nth(j)])

\* C5 happens: a cached list of a payload with an error descriptor and usage
\* and of a payload without an error descriptor was projected to one row
C5_Witness ==
    /\ pc = "served"
    /\ Len(projected) = 2
    /\ IsSome(projected[1].error) /\ IsSome(projected[1].usage)
    /\ ~IsSome(projected[2].error)
    /\ Len(rows) = 1

\* Worker i's fetch_single_provider returned the timeout error
TimedOut(i) == w[i].st = "finished" /\ w[i].result = timeout_error(timeout_secs)

\* C6: fetch_single_provider yields one outcome, decided by what happens first.
\* An outcome, once there, never changes.  A wait that ends with the child's
\* completion delivered ends with the outcome derived from the child's exit
\* status and output, never with the timeout error; a wait that ends with
\* nothing delivered ends at or after its deadline, with the timeout error
C6_OneOutcome ==
    [][\A i \in 1..Len(w) :
          /\ w[i].st = "finished" =>
                 (w'[i].st = "finished" /\ w'[i].result = w[i].result)
          /\ (w[i].st = "receiving" /\ w'[i].st = "finished") =>
                 IF IsSome(w[i].chan)
                 THEN /\ w[i].chan = w[i].waited
                      /\ w'[i].result =
                             fetch_single_provider_received(enabled[i], Unwrap(w[i].waited))
                      /\ ~TimedOut(i)'
                 ELSE /\ now >= w[i].deadline
                      /\ TimedOut(i)']_vars

\* C6 happens: one fetch timed out with nothing reported by its child, another
\* got its child's completion and has a different outcome
C6_Witness ==
    /\ Len(w) = 2
    /\ TimedOut(1) /\ ~IsSome(w[1].waited)
    /\ w[2].st = "finished" /\ w[2].child = "reaped" /\ ~TimedOut(2)

\* The commands spawned so far for a provider name, counted over all workers
SpawnCount(name) ==
    Cardinality({ik \in (1..Len(w)) \X (1..2) :
                    /\ ik[2] <= Len(w[ik[1]].invocations)
                    /\ w[ik[1]].invocations[ik[2]].provider = name})

\* C7: in one call of fetch_all_providers no worker spawns the command twice,
\* a worker past its spawn (waiting, timed out, failed or done) has spawned it
\* once and for its own enabled provider, so that at the return the command
\* was spawned exactly once for every enabled provider; and it is never
\* spawned for a provider of the registry that the configuration does not enable
C7_SpawnedOncePerEnabled ==
    /\ \A i \in 1..Len(w) :
           /\ Len(w[i].invocations) <= 1
           /\ w[i].st \in {"receiving", "finished", "panicked"} =>
                  Len(w[i].invocations) = 1
           /\ \A k \in 1..Len(w[i].invocations) :
                  w[i].invocations[k].provider = enabled[i].name
    /\ \A k \in 1..Len(PROVIDERS) :
           IF is_enabled(config.providers, PROVIDERS[k].name)
           THEN /\ SpawnCount(PROVIDERS[k].name) <= 1
                /\ Returned => SpawnCount(PROVIDERS[k].name) = 1
           ELSE SpawnCount(PROVIDERS[k].name) = 0

\* C7 happens: the call returned after one provider's fetch timed out and the
\* other's spawn failed, with one spawn each and none for a provider left out
C7_Witness ==
    /\ Returned
    /\ Len(w) = 2
    /\ TimedOut(1) /\ Len(w[1].invocations) = 1
    /\ w[2].result = spawn_error(enabled[2]) /\ Len(w[2].invocations) = 1
    /\ config.providers.codex = Some(FALSE)
    /\ SpawnCount(<<99, 111, 100, 101, 120>>) = 0

\* C8: the call of fetch_all_providers is over only once every worker has
\* completed or crashed: it does not end, and cut a worker short, while a
\* worker still waits for its child; and no worker waits past its deadline
C8_JoinWaitsForEveryWorker ==
    /\ Ended => \A i \in 1..Len(w) : w[i].st \in {"finished", "panicked"}
    /\ \A i \in 1..Len(w) : w[i].st = "receiving" => now <= w[i].deadline

\* The tags of the errors the workers from i on bring, in worker order: one
\* "unknown" for a worker that panicked, one tag for a fetch that failed, one
\* per payload with an error descriptor for a fetch that succeeded
RECURSIVE ErrorTagsFrom(_)
ErrorTagsFrom(i) ==
    IF i > Len(w) THEN <<>>
    ELSE (IF w[i].st = "panicked" THEN << <<117, 110, 107, 110, 111, 119, 110>> >>
          ELSE IF FetchFailed(i) THEN <<enabled[i].name>>
          ELSE [k \in 1..Len(SelectSeq(w[i].result.payloads, has_error)) |->
                   enabled[i].name])
         \o ErrorTagsFrom(i + 1)

\* C9 (as the code has it): the payloads and the errors that
\* fetch_all_providers returns are in the order of enabled_providers, whatever
\* the order in which the workers completed
C9_OrderFollowsConfig ==
    Returned =>
        /\ payloads = GoodPayloadsFrom(1)
        /\ [k \in 1..Len(errors) |-> errors[k].provider] = ErrorTagsFrom(1)

\* C9 happens: the second worker completed before the first, both fetches
\* failed, and the call returned the first provider's error first
C9_Witness ==
    /\ Returned
    /\ overtaken
    /\ Len(w) = 2
    /\ FetchFailed(1) /\ FetchFailed(2)
    /\ Len(errors) = 2
    /\ errors[1].provider = enabled[1].name /\ errors[2].provider = enabled[2].name

\* C9 (as stated): the order of the result lists is the order of the workers'
\* completions, so that when the second of two workers completes first, its
\* payloads, or its error, come first in the result
C9_OrderFollowsCompletion ==
    (Returned /\ overtaken /\ Len(w) = 2) =>
        /\ (FetchFailed(1) /\ FetchFailed(2)) =>
               errors[1].provider = enabled[2].name
        /\ (FetchSucceeded(1) /\ FetchSucceeded(2) /\ Len(payloads) = 2) =>
               payloads[1] = w[2].result.payloads[1]

\* Worker i received its child's completion: a non-zero exit status, with a
\* standard output that parses as a payload list
NonZeroParsed(i) ==
    /\ w[i].st = "finished" /\ w[i].child = "reaped" /\ ~TimedOut(i)
    /\ Unwrap(w[i].waited).ok
    /\ Unwrap(w[i].waited).status # 0
    /\ parse_payload_bytes(Unwrap(w[i].waited).stdout).ok

\* "codexbar failed"
CodexbarFailed == <<99, 111, 100, 101, 120, 98, 97, 114, 32, 102, 97, 105, 108, 101, 100>>

\* C10: when the command exits non-zero and its standard output parses as a
\* payload list, fetch_single_provider returns that list as success; and when
\* the join loop handles it, every in-band error of the list is there as an
\* error of that provider carrying the in-band message ("Unknown error"
\* without one), none as a "codexbar failed" fetch failure
C10_NonZeroExitWithPayloads ==
    \A i \in 1..Len(w) :
        NonZeroParsed(i) =>
            LET parsed == parse_payload_bytes(Unwrap(w[i].waited).stdout).payloads
                bad == SelectSeq(parsed, has_error)
            IN  /\ w[i].result.ok
                /\ w[i].result.payloads = parsed
                /\ Handled(i) =>
                       /\ ~AbortedAt(i)
                       /\ \A k \in 1..Len(bad) :
                              \E e \in ErrorsTagged(enabled[i].name) :
                                  errors[e].raw = payload_error_message(bad[k])
                       /\ \A e \in ErrorsTagged(enabled[i].name) :
                              ~Contains(errors[e].raw, CodexbarFailed)

\* C13: with no provider enabled, fetch_all_providers returns at once, with
\* no payloads and no errors: there is no worker, the call never enters the
\* spawn or join phase, no command is spawned and no time passes
C13_NoProvidersNoOp ==
    enabled = <<>> =>
        /\ pc \in {"idle", "returned", "shown", "served"}
        /\ w = <<>>
        /\ payloads = <<>> /\ errors = <<>>
        /\ \A k \in 1..Len(PROVIDERS) : SpawnCount(PROVIDERS[k].name) = 0
        /\ now = 0

\* C13 happens: the call returned for a configuration that names providers
\* but enables none
C13_Witness ==
    /\ enabled = <<>>
    /\ config.providers.codex = Some(FALSE)
    /\ pc = "returned"
    /\ payloads = <<>> /\ errors = <<>>

\* "unknown" and "thread panicked"
UnknownName == <<117, 110, 107, 110, 111, 119, 110>>
ThreadPanicked == <<116, 104, 114, 101, 97, 100, 32, 112, 97, 110, 105, 99, 107, 101, 100>>

\* C14: once the call is over, every worker thread that panicked has brought
\* one error with provider "unknown" and message "thread panicked" into the
\* returned result, and the outcome of every other worker is in the result as
\* well: one error for a failed fetch, the payloads and one error per in-band
\* error for a fetch that succeeded
C14_PanickedWorkerIsolated ==
    (Ended /\ \E i \in 1..Len(w) : w[i].st = "panicked") =>
        /\ Returned
        /\ Cardinality(ErrorsTagged(UnknownName))
               = Cardinality({i \in 1..Len(w) : w[i].st = "panicked"})
        /\ \A k \in ErrorsTagged(UnknownName) : errors[k].message = ThreadPanicked
        /\ \A j \in 1..Len(w) :
               /\ FetchFailed(j) => Cardinality(ErrorsTagged(enabled[j].name)) = 1
               /\ FetchSucceeded(j) =>
                      Cardinality(ErrorsTagged(enabled[j].name))
                          = Len(SelectSeq(w[j].result.payloads, has_error))
        /\ payloads = GoodPayloadsFrom(1)

----------------------------------------------------------------------------
(* The cache file: what serde writes for CachedData and what it reads back *)

\* #[derive(Serialize)] of ProviderPayload and of the types inside it: every
\* field is written under its camelCase name, None as null.  (serde_json
\* writes an f64 that is not finite as null as well; the payloads come from
\* serde_json, which reads no such number.)
ser_ProviderPayload(p) ==
    LET str(o) == IF IsSome(o) THEN JStr(Unwrap(o)) ELSE JNull
        num(o) == IF IsSome(o) THEN JNum(Unwrap(o)) ELSE JNull
        window(o) ==
            IF IsSome(o)
            THEN JObj([usedPercent |-> num(Unwrap(o).used_percent),
                       resetDescription |-> str(Unwrap(o).reset_description),
                       windowMinutes |-> num(Unwrap(o).window_minutes)])
            ELSE JNull
        usage == IF IsSome(p.usage)
                 THEN JObj([primary |-> window(Unwrap(p.usage).primary),
                            secondary |-> window(Unwrap(p.usage).secondary),
                            updatedAt |-> str(Unwrap(p.usage).updated_at)])
                 ELSE JNull
        credits == IF IsSome(p.credits)
                   THEN JObj([remaining |-> num(Unwrap(p.credits).remaining)])
                   ELSE JNull
        error == IF IsSome(p.error)
                 THEN JObj([message |-> str(Unwrap(p.error).message),
                            code |-> num(Unwrap(p.error).code),
                            kind |-> str(Unwrap(p.error).kind)])
                 ELSE JNull
    IN  JObj([provider |-> JStr(p.provider), version |-> str(p.version),
              source |-> str(p.source), usage |-> usage, credits |-> credits,
              error |-> error])

\* #[derive(Serialize, Deserialize)] of ProviderFetchError: three strings, all
\* required
ser_ProviderFetchError(e) ==
    JObj([provider |-> JStr(e.provider), message |-> JStr(e.message),
          raw |-> JStr(e.raw)])

de_ProviderFetchError(v) ==
    IF v.t # "obj" THEN None
    ELSE LET provider == de_string(Field(v, "provider"))
             message == de_string(Field(v, "message"))
             raw == de_string(Field(v, "raw"))
         IN  IF IsSome(provider) /\ IsSome(message) /\ IsSome(raw)
             THEN Some([provider |-> Unwrap(provider), message |-> Unwrap(message),
                        raw |-> Unwrap(raw)])
             ELSE None

\* A value of CachedData is [variant |-> "Full", payloads, errors] or
\* [variant |-> "Legacy", payloads].

\* A serializer that knows the bare array only
ser_CachedData_bare(data) ==
    JArr([k \in 1..Len(data.payloads) |-> ser_ProviderPayload(data.payloads[k])])

\* #[serde(untagged)] Serialize: the variant's content without a tag, Full as
\* an object of its two fields, Legacy as the array
ser_CachedData(data) ==
    IF data.variant = "Full"
    THEN JObj([payloads |-> JArr([k \in 1..Len(data.payloads) |->
                                      ser_ProviderPayload(data.payloads[k])]),
               errors |-> JArr([k \in 1..Len(data.errors) |->
                                    ser_ProviderFetchError(data.errors[k])])])
    ELSE JArr([k \in 1..Len(data.payloads) |-> ser_ProviderPayload(data.payloads[k])])

\* Vec<ProviderFetchError>: a list whose every element reads
de_error_list(v) ==
    IF v.t = "arr" /\ \A k \in 1..Len(v.v) : IsSome(de_ProviderFetchError(v.v[k]))
    THEN Some([k \in 1..Len(v.v) |-> Unwrap(de_ProviderFetchError(v.v[k]))])
    ELSE None

\* CachedData::Full as serde reads it: from an object that has both fields,
\* each a list whose every element reads; other fields are ignored.  (ps and
\* es are the two fields as read, each bound once.)
de_Full(v) ==
    IF v.t = "obj" /\ Field(v, "payloads").t = "arr"
    THEN CHOOSE full \in
             {IF IsSome(ps) /\ IsSome(es)
              THEN Some([variant |-> "Full", payloads |-> Unwrap(ps),
                         errors |-> Unwrap(es)])
              ELSE None :
                  ps \in {de_payload_list(Field(v, "payloads").v)},
                  es \in {de_error_list(Field(v, "errors"))}} : TRUE
    ELSE None

\* A reader that knows the current format only
de_CachedData_current(v) == de_Full(v)

\* #[serde(untagged)] Deserialize: the variants are tried in the order of their
\* declaration and the first that reads is taken.  Legacy reads from an array
\* whose every element reads as a payload.
de_CachedData(v) ==
    CHOOSE data \in
        {IF IsSome(full) THEN full
         ELSE IF v.t = "arr"
         THEN CHOOSE legacy \in
                  {IF IsSome(ps)
                   THEN Some([variant |-> "Legacy", payloads |-> Unwrap(ps)])
                   ELSE None : ps \in {de_payload_list(v.v)}} : TRUE
         ELSE None : full \in {de_Full(v)}} : TRUE

\* CachedData::payloads, CachedData::errors, CachedData::into_parts
CachedData_payloads(self) == self.payloads

CachedData_errors(self) == IF self.variant = "Full" THEN self.errors ELSE <<>>

CachedData_into_parts(self) ==
    IF self.variant = "Full" THEN <<self.payloads, self.errors>>
    ELSE <<self.payloads, <<>>>>

\* The content of a file whose text is no JSON
NotJsonContent == [t |-> "invalid", v |-> NotJsonText]

\* A file: its content as serde_json reads its text, and the time of its last
\* modification where the file system tells it
File(content, modified) == [content |-> content, modified |-> modified]

\* read_cache_full of the file at the cache path (None: there is no file)
read_cache_full(file) ==
    IF file = None
    THEN [ok |-> FALSE, data |-> None, err |-> "failed to read cache file"]
    ELSE CHOOSE result \in
             {IF IsSome(cached) THEN [ok |-> TRUE, data |-> cached, err |-> ""]
              ELSE [ok |-> FALSE, data |-> None, err |-> "cached JSON was invalid"] :
                  cached \in {de_CachedData(Unwrap(file).content)}} : TRUE

\* read_cache: the payloads of read_cache_full
read_cache(file) ==
    CHOOSE result \in
        {IF cached.ok THEN Ok(CachedData_payloads(Unwrap(cached.data)))
         ELSE Err(cached.err) : cached \in {read_cache_full(file)}} : TRUE

\* The errors a cached result may carry
CachedErrors ==
    {ProviderFetchError_new(<<122, 97, 105>>, timeout_error(timeout_secs).err).value,
     ProviderFetchError_new(<<99, 108, 97, 117, 100, 101>>, ShortMessage).value}


\* At the start there is no file, or a file that is no cache, or the file an
\* older version has left: the bare array of some payloads.
\* call: the write done last, the payloads of the file an older version has
\* left, the pair a successful write was given, the result of the read after it
CacheInit ==
    /\ \/ /\ \/ cache = None
             \/ cache = Some(File(NotJsonContent, Some(0)))
             \/ cache = Some(File(DocUnauthorized.value, Some(0)))
          /\ call = [op |-> "none", legacy |-> None, written |-> None, read |-> None]
       \/ \E n \in 0..MaxCached : \E ps \in [1..n -> CachedPayloads] :
              /\ cache = Some(File(ser_CachedData([variant |-> "Legacy",
                                                   payloads |-> ps]), Some(0)))
              /\ call = [op |-> "none", legacy |-> Some(ps), written |-> None,
                         read |-> None]
    /\ FetchIdle
    /\ now = 0
    /\ surface = None /\ tui = None

\* write_cache_full as it would be if it kept what the file held: the payloads
\* of the earlier snapshot stay in front of the new ones
write_cache_full_merging(ps, es) ==
    {[ok |-> TRUE,
      file |-> Some(File(ser_CachedData(
                  [variant |-> "Full",
                   payloads |-> (IF read_cache(cache).ok
                                 THEN read_cache(cache).payloads ELSE <<>>) \o ps,
                   errors |-> es]), Some(now))),
      err |-> ""]}

\* write_cache_full, as the outcomes it can have: the pair goes into the file
\* as CachedData::Full, or fs::write fails (File::create fails and the file is
\* as before, or the write breaks off and leaves a part of the text)
write_cache_full(ps, es) ==
    {[ok |-> TRUE, file |-> Some(File(ser_CachedData([variant |-> "Full", payloads |-> ps,
                                                    errors |-> es]), Some(now))),
      err |-> ""]}
    \cup {[ok |-> FALSE, err |-> "failed to write cache",
           file |-> IF part THEN Some(File(NotJsonContent, Some(now))) ELSE cache] :
              part \in BOOLEAN}

\* write_cache: write_cache_full without errors
write_cache(ps) == write_cache_full(ps, <<>>)

WriteCacheFull ==
    /\ \E n \in 0..MaxCached : \E ps \in [1..n -> CachedPayloads] :
       \E m \in 0..1 : \E es \in [1..m -> CachedErrors] :
       \E out \in write_cache_full(ps, es) :
           /\ cache' = out.file
           /\ call' = [op |-> "write_cache_full", legacy |-> None,
                       written |-> IF out.ok THEN Some(<<ps, es>>) ELSE None,
                       read |-> None]
    /\ UNCHANGED <<config, pc, w, joined, payloads, errors, now, overtaken,
                   projected, rows, surface, tui>>

WriteCache ==
    /\ \E n \in 0..MaxCached : \E ps \in [1..n -> CachedPayloads] :
       \E out \in write_cache(ps) :
           /\ cache' = out.file
           /\ call' = [op |-> "write_cache", legacy |-> None,
                       written |-> IF out.ok THEN Some(<<ps, <<>>>>) ELSE None,
                       read |-> None]
    /\ UNCHANGED <<config, pc, w, joined, payloads, errors, now, overtaken,
                   projected, rows, surface, tui>>

ReadCacheFull ==
    /\ call.read = None
    /\ call' = [call EXCEPT !.read = Some(read_cache_full(cache))]
    /\ UNCHANGED <<config, pc, w, joined, payloads, errors, now, overtaken,
                   projected, rows, cache, surface, tui>>

CacheNext == WriteCacheFull \/ WriteCache \/ ReadCacheFull

CacheSpec == CacheInit /\ [][CacheNext]_vars

\* The file holds the current format: an object of the two fields, each a list
CurrentFormat(file) ==
    /\ file.content.t = "obj"
    /\ DOMAIN file.content.v = {"payloads", "errors"}
    /\ file.content.v.payloads.t = "arr" /\ file.content.v.errors.t = "arr"

\* C15: after a write of a pair that succeeded, whether by write_cache_full or
\* by write_cache, the file holds the current two-field format, and a
\* read_cache_full of it succeeds and yields the pair that was written
C15_CacheRoundTrip ==
    IsSome(call.written) =>
        /\ IsSome(cache) /\ CurrentFormat(Unwrap(cache))
        /\ IsSome(call.read) =>
               /\ Unwrap(call.read).ok
               /\ CachedData_into_parts(Unwrap(Unwrap(call.read).data))
                      = Unwrap(call.written)
               /\ CachedData_payloads(Unwrap(Unwrap(call.read).data))
                      = Unwrap(call.written)[1]
               /\ CachedData_errors(Unwrap(Unwrap(call.read).data))
                      = Unwrap(call.written)[2]

\* A pair of two payloads, one of them with an error, and one error was
\* written and read back
C15_Witness ==
    /\ IsSome(call.written) /\ IsSome(call.read)
    /\ Len(Unwrap(call.written)[1]) = 2 /\ Len(Unwrap(call.written)[2]) = 1
    /\ \E k \in 1..2 : has_error(Unwrap(call.written)[1][k])
    /\ Unwrap(call.read).ok
    /\ Len(CachedData_errors(Unwrap(Unwrap(call.read).data))) = 1

\* A file of an older version was read: no write since the start
LegacyRead == IsSome(call.legacy) /\ IsSome(call.read)

\* C16: the read of a file that holds the bare array of some payloads succeeds
\* and yields these payloads in their order and no errors, through payloads(),
\* errors() and into_parts()
C16_LegacyReadsAsPayloads ==
    LegacyRead =>
        /\ Unwrap(cache).content.t = "arr"
        /\ Unwrap(call.read).ok
        /\ CachedData_payloads(Unwrap(Unwrap(call.read).data)) = Unwrap(call.legacy)
        /\ CachedData_errors(Unwrap(Unwrap(call.read).data)) = <<>>
        /\ CachedData_into_parts(Unwrap(Unwrap(call.read).data))
               = <<Unwrap(call.legacy), <<>>>>

\* A legacy file of two payloads, the first with an error, was read
C16_Witness ==
    /\ LegacyRead
    /\ Unwrap(cache).content.t = "arr" /\ Len(Unwrap(cache).content.v) = 2
    /\ Unwrap(call.read).ok
    /\ Unwrap(Unwrap(call.read).data).variant = "Legacy"
    /\ has_error(CachedData_payloads(Unwrap(Unwrap(call.read).data))[1])

----------------------------------------------------------------------------
(* One refresh of a display surface: maybe_refresh and main of the status  *)
(* bar, fetch_rows_with_config and apply_refresh_result of the TUI         *)

\* config.refresh_secs of the configuration in use, and the last instant
RefreshSecs == 2
MaxNow == 2

\* What a worker thread of provider e may return
WorkerResults(e) ==
    {spawn_error(e), timeout_error(timeout_secs)}
    \cup {fetch_single_provider_received(e, out) : out \in ChildOutputs(e.name)}

\* What one iteration of the join loop brings, as one record
brought(got) ==
    [panicked |-> got.panicked,
     payloads |-> IF got.panicked THEN <<>> ELSE got.value.payloads,
     errors |-> IF got.panicked THEN <<>> ELSE got.value.errors]

\* The join loop over the workers of es, acc being what it has so far: the
\* results it can end with, a panic among them
RECURSIVE join_all(_, _)
join_all(es, acc) ==
    IF es = <<>> THEN {acc}
    ELSE UNION {IF got.panicked THEN {got}
                ELSE join_all(Tail(es),
                              [panicked |-> FALSE,
                               payloads |-> acc.payloads \o got.payloads,
                               errors |-> acc.errors \o got.errors]) :
                    got \in {brought(collect_panicked)}
                            \cup {brought(collect_result(Head(es).name, r)) :
                                      r \in WorkerResults(Head(es))}}

\* fetch_all_providers as one call: every FetchResult it can return under the
\* configuration, and its panic
fetch_all_providers(cfg) ==
    join_all(enabled_providers(cfg.providers),
             [panicked |-> FALSE, payloads |-> <<>>, errors |-> <<>>])

\* The staleness test of maybe_refresh and of fetch_rows_with_config: metadata
\* fails, modified() fails, duration_since fails (a modification time ahead
\* of now), or the age has reached the refresh interval
stale(file, at) ==
    IF file = None THEN TRUE
    ELSE IF Unwrap(file).modified = None THEN TRUE
    ELSE IF at < Unwrap(Unwrap(file).modified) THEN TRUE
    ELSE at - Unwrap(Unwrap(file).modified) >= RefreshSecs

\* A surface about to refresh.  events: the calls of fetch_all_providers and
\* write_cache_full so far; got: the (payloads, errors) the refresh has in
\* hand; failure: the error the refresh returned to its caller; class, rows,
\* errors, last_error: what the surface shows in the end
NewSurface(kind, force) ==
    [kind |-> kind, force |-> force,
     pc |-> IF kind = "tui" THEN "read" ELSE "stat",
     cached |-> None, stale |-> FALSE, got |-> None, events |-> <<>>,
     write_failed |-> FALSE, failure |-> "", class |-> "", rows |-> <<>>,
     errors |-> <<>>, last_error |-> ""]

\* Two snapshots of earlier refreshes: one in the current format, of a good
\* payload, a payload with an error and an error; one in the legacy format
SnapshotFull ==
    [variant |-> "Full",
     payloads |-> <<Unwrap(de_ProviderPayload(DocGood(<<99, 111, 100, 101, 120>>).value)),
                    Unwrap(de_ProviderPayload(DocErrorNoMessage.value))>>,
     errors |-> <<ProviderFetchError_new(<<122, 97, 105>>,
                                         timeout_error(timeout_secs).err).value>>]
SnapshotLegacy ==
    [variant |-> "Legacy",
     payloads |-> <<Unwrap(de_ProviderPayload(DocGood(<<122, 97, 105>>).value))>>]

\* The cache file at the start: none, a text that is no JSON, a snapshot in the
\* current format or one in the legacy format, modified at some instant or at
\* a time the file system does not tell
SurfaceInit ==
    /\ now \in 0..MaxNow
    /\ \/ cache = None
       \/ \E modified \in {None} \cup {Some(t) : t \in 0..MaxNow} :
              \/ cache = Some(File(NotJsonContent, modified))
              \/ cache = Some(File(ser_CachedData(SnapshotFull), modified))
              \/ cache = Some(File(ser_CachedData(SnapshotLegacy), modified))
    /\ surface \in {NewSurface("waybar", FALSE), NewSurface("tui", FALSE),
                    NewSurface("tui", TRUE)}
    /\ FetchIdle
    /\ call = None /\ tui = None

\* fetch_rows_with_config: cached = read_cache_full(..).ok()
SurfaceRead ==
    /\ surface.pc = "read"
    /\ surface' = [surface EXCEPT !.pc = "stat",
                                  !.cached = read_cache_full(cache).data]
    /\ UNCHANGED <<config, pc, w, joined, payloads, errors, now, overtaken,
                   projected, rows, call, cache, tui>>

\* The staleness test and the branch on it.  The status bar fetches if the
\* cache is stale and returns read_cache otherwise; the TUI fetches if forced,
\* if the cache is stale or if its read failed, and takes the parts of the
\* cached data otherwise
SurfaceStat ==
    /\ surface.pc = "stat"
    /\ \E old \in {stale(cache, now)} :
           IF surface.kind = "waybar"
           THEN IF old
                THEN surface' = [surface EXCEPT !.stale = old, !.pc = "fetch"]
                ELSE \E read \in {read_cache(cache)} :
                         surface' = [surface EXCEPT
                                         !.stale = old, !.pc = "return",
                                         !.got = IF read.ok
                                                 THEN Some([payloads |-> read.payloads,
                                                            errors |-> <<>>])
                                                 ELSE None,
                                         !.failure = IF read.ok THEN ""
                                                     ELSE read.err]
           ELSE IF surface.force \/ old \/ surface.cached = None
           THEN surface' = [surface EXCEPT !.stale = old, !.pc = "fetch"]
           ELSE \E parts \in {CachedData_into_parts(Unwrap(surface.cached))} :
                    surface' = [surface EXCEPT
                                    !.stale = old, !.pc = "return",
                                    !.got = Some([payloads |-> parts[1],
                                                  errors |-> parts[2]])]
    /\ UNCHANGED <<config, pc, w, joined, payloads, errors, now, overtaken,
                   projected, rows, call, cache, tui>>

\* fetch_all_providers returns, or panics on the thread that called it
SurfaceFetch ==
    /\ surface.pc = "fetch"
    /\ \E out \in fetch_all_providers(config) :
           surface' =
               IF out.panicked
               THEN [surface EXCEPT !.pc = "panicked", !.events = Append(@, "fetch")]
               ELSE [surface EXCEPT !.pc = "write", !.events = Append(@, "fetch"),
                                    !.got = Some([payloads |-> out.payloads,
                                                  errors |-> out.errors])]
    /\ UNCHANGED <<config, pc, w, joined, payloads, errors, now, overtaken,
                   projected, rows, call, cache, tui>>

\* write_cache_full of what was fetched: the status bar returns its error with
\* `?`, the TUI drops it with .ok()
SurfaceWrite ==
    /\ surface.pc = "write"
    /\ \E out \in write_cache_full(Unwrap(surface.got).payloads,
                                   Unwrap(surface.got).errors) :
           /\ cache' = out.file
           /\ surface' = [surface EXCEPT
                              !.pc = "return", !.events = Append(@, "write"),
                              !.write_failed = ~out.ok,
                              !.failure = IF surface.kind = "waybar" THEN out.err
                                          ELSE @]
    /\ UNCHANGED <<config, pc, w, joined, payloads, errors, now, overtaken,
                   projected, rows, call, tui>>

\* The refresh has returned.  main of the status bar prints the error output
\* for Err, the empty output for no rows, the bars otherwise;
\* apply_refresh_result of the TUI takes the rows and the errors
SurfaceShow ==
    /\ surface.pc = "return"
    /\ surface' =
           IF surface.kind = "waybar"
           THEN IF surface.failure # ""
                THEN [surface EXCEPT !.pc = "done", !.class = "tokengauge-error"]
                ELSE IF payload_to_rows(Unwrap(surface.got).payloads) = <<>>
                THEN [surface EXCEPT !.pc = "done", !.class = "tokengauge-empty"]
                ELSE [surface EXCEPT
                          !.pc = "done", !.class = "tokengauge",
                          !.rows = payload_to_rows(Unwrap(surface.got).payloads)]
           ELSE [surface EXCEPT !.pc = "done",
                                !.rows = payload_to_rows(Unwrap(surface.got).payloads),
                                !.errors = Unwrap(surface.got).errors,
                                !.last_error = ""]
    /\ UNCHANGED <<config, pc, w, joined, payloads, errors, now, overtaken,
                   projected, rows, call, cache, tui>>

\* The refresh thread of the TUI has panicked and dropped its sender: try_recv
\* finds the channel disconnected.  (A panic in the status bar ends the
\* process with nothing printed to stdout.)
SurfaceDisconnected ==
    /\ surface.pc = "panicked" /\ surface.kind = "tui"
    /\ surface' = [surface EXCEPT !.pc = "done",
                                  !.last_error = "refresh thread disconnected"]
    /\ UNCHANGED <<config, pc, w, joined, payloads, errors, now, overtaken,
                   projected, rows, call, cache, tui>>

SurfaceNext ==
    \/ SurfaceRead
    \/ SurfaceStat
    \/ SurfaceFetch
    \/ SurfaceWrite
    \/ SurfaceShow
    \/ SurfaceDisconnected

SurfaceSpec == SurfaceInit /\ [][SurfaceNext]_vars

\* The refresh is over: the surface shows its result, or the status bar has
\* ended by a panic
SurfaceEnded ==
    surface.pc = "done" \/ (surface.pc = "panicked" /\ surface.kind = "waybar")

\* The surface has taken its decision and neither fetched nor written since:
\* the cache file is the one the decision was taken on
Decided == surface.pc \notin {"read", "stat"} /\ surface.events = <<>>

\* The age of the file, where it has a modification time
Age == now - Unwrap(Unwrap(cache).modified)

\* C17: on both surfaces the cache is taken as stale when the file is missing,
\* when its modification time is not told, or when now - modified has reached
\* the refresh interval, and as fresh when 0 <= now - modified < interval; a
\* refresh over a stale cache ends with one call of fetch_all_providers and
\* then one write of the cache; a refresh that is not forced, over a fresh
\* cache that reads, returns the cached snapshot with no fetch and no write
C17_StalenessPolicy ==
    /\ Decided =>
           /\ (cache = None \/ Unwrap(cache).modified = None) => surface.stale
           /\ (cache # None /\ Unwrap(cache).modified # None) =>
                  /\ Age >= RefreshSecs => surface.stale
                  /\ (0 <= Age /\ Age < RefreshSecs) => ~surface.stale
    /\ (SurfaceEnded /\ surface.stale) => surface.events = <<"fetch", "write">>
    /\ (Decided /\ ~surface.stale /\ ~surface.force /\ read_cache_full(cache).ok) =>
           /\ surface.pc \in {"return", "done"}
           /\ Unwrap(surface.got).payloads
                  = CachedData_payloads(Unwrap(read_cache_full(cache).data))
           /\ surface.kind = "tui" =>
                  Unwrap(surface.got).errors
                      = CachedData_errors(Unwrap(read_cache_full(cache).data))
           /\ (surface.pc = "done" /\ surface.class # "tokengauge-empty") =>
                  surface.rows = payload_to_rows(Unwrap(surface.got).payloads)

\* C18: on every surface, a cache file that is fresh by its modification time
\* but does not read makes the refresh call fetch_all_providers, and no error
\* is returned for it
C18_ReadFailureRefreshes ==
    (Decided /\ ~surface.stale /\ ~read_cache_full(cache).ok) =>
        surface.pc = "fetch" /\ surface.failure = ""

\* C19: on every surface, when the write of the cache after a fetch has
\* failed, the failure is returned to the caller and the surface shows the
\* rows of the fetched payloads
C19_WriteFailureStillShows ==
    (surface.pc = "done" /\ surface.write_failed) =>
        /\ surface.failure # ""
        /\ surface.class # "tokengauge-error"
        /\ surface.rows = payload_to_rows(Unwrap(surface.got).payloads)

----------------------------------------------------------------------------
(* The loop of the TUI (run_app) and its background refresh thread         *)

\* Time in this specification is counted in minutes: the cache is polled
\* every 60 seconds, and RefreshSecs stands for refresh_secs = 60 * RefreshSecs
CachePoll == 1

\* surface is the refresh the background thread is running (pc = "idle": no
\* thread).  tui: the position of the loop, whether pending_refresh holds a
\* receiver, the message in its channel, whether its sender is gone, the
\* refreshes started whose end the loop has not seen, and the fields of
\* AppState (spinner_index, which only turns the spinner, is left out), and
\* whether load_config succeeds on the configuration file as it is.
\* run_app starts the first refresh before it enters the loop.  The
\* configuration is the default one with claude switched off.
TuiInit ==
    /\ tui = [pc |-> "recv", pending |-> TRUE, chan |-> None, disconnected |-> FALSE,
              outstanding |-> 1, rows |-> <<>>, errors |-> <<>>, last_error |-> "",
              status_message |-> "", last_refresh |-> 0, last_cache_poll |-> 0,
              config_loads |-> TRUE]
    /\ surface = NewSurface("tui", FALSE)
    /\ cache = None
    /\ now = 0
    /\ config = [providers |-> [DefaultProviders EXCEPT !.claude = Some(FALSE)]]
    /\ pc = "idle" /\ w = <<NewWorker>> /\ joined = 0
    /\ payloads = <<>> /\ errors = <<>> /\ overtaken = FALSE
    /\ projected = <<>> /\ rows = <<>>
    /\ call = None

\* The thread: fetch_rows_with_config has its result, sender.send(result)
ThreadSends ==
    /\ surface.pc = "return"
    /\ surface' = [surface EXCEPT !.pc = "idle"]
    /\ tui' = [tui EXCEPT
                   !.chan = Some([ok |-> TRUE, err |-> "",
                                  rows |-> payload_to_rows(Unwrap(surface.got).payloads),
                                  errors |-> Unwrap(surface.got).errors]),
                   !.disconnected = TRUE]
    /\ UNCHANGED <<config, pc, w, joined, payloads, errors, now, overtaken,
                   projected, rows, call, cache>>

\* The thread has panicked: its sender is dropped with nothing sent
ThreadDies ==
    /\ surface.pc = "panicked"
    /\ surface' = [surface EXCEPT !.pc = "idle"]
    /\ tui' = [tui EXCEPT !.disconnected = TRUE]
    /\ UNCHANGED <<config, pc, w, joined, payloads, errors, now, overtaken,
                   projected, rows, call, cache>>

\* apply_refresh_result with a failed result keeping what is displayed
apply_refresh_result_keeping(state, result, at) ==
    [state EXCEPT !.rows = IF result.ok THEN result.rows ELSE @,
                  !.errors = IF result.ok THEN result.errors ELSE @,
                  !.last_error = IF result.ok THEN "" ELSE result.err,
                  !.last_refresh = at,
                  !.status_message = ""]

\* apply_refresh_result at the instant `at`: Ok(refresh) puts its rows and
\* errors into the state, Err(error) empties both and leaves its text
apply_refresh_result(state, result, at) ==
    [state EXCEPT !.rows = IF result.ok THEN result.rows ELSE <<>>,
                  !.errors = IF result.ok THEN result.errors ELSE <<>>,
                  !.last_error = IF result.ok THEN "" ELSE result.err,
                  !.last_refresh = at,
                  !.status_message = ""]

\* A try_recv that takes a channel without a message for empty, whether or
\* not its sender is gone
TuiTryRecvNoDisconnect ==
    /\ tui.pc = "recv"
    /\ tui' = IF ~tui.pending THEN [tui EXCEPT !.pc = "poll"]
              ELSE IF IsSome(tui.chan)
              THEN [apply_refresh_result(tui, Unwrap(tui.chan), now)
                        EXCEPT !.pc = "poll", !.pending = FALSE, !.chan = None,
                               !.outstanding = @ - 1]
              ELSE [tui EXCEPT !.pc = "poll"]
    /\ UNCHANGED <<config, pc, w, joined, payloads, errors, now, overtaken,
                   projected, rows, call, cache, surface>>

\* The top of the loop: try_recv on the pending receiver.  A message is
\* applied (apply_refresh_result), an empty channel whose sender is gone is
\* recorded as an error, an empty channel turns the spinner
TuiTryRecv ==
    /\ tui.pc = "recv"
    /\ tui' = IF ~tui.pending THEN [tui EXCEPT !.pc = "poll"]
              ELSE IF IsSome(tui.chan)
              THEN [apply_refresh_result(tui, Unwrap(tui.chan), now)
                        EXCEPT !.pc = "poll", !.pending = FALSE, !.chan = None,
                               !.outstanding = @ - 1]
              ELSE IF tui.disconnected
              THEN [tui EXCEPT !.pc = "poll", !.pending = FALSE,
                               !.outstanding = @ - 1,
                               !.last_error = "refresh thread disconnected",
                               !.status_message = ""]
              ELSE [tui EXCEPT !.pc = "poll"]
    /\ UNCHANGED <<config, pc, w, joined, payloads, errors, now, overtaken,
                   projected, rows, call, cache, surface>>

\* The poll of the cache file, every 60 seconds while no refresh is pending:
\* what the file holds is displayed if the configuration loads and the file
\* reads
TuiPollCache ==
    /\ tui.pc = "poll"
    /\ IF ~tui.pending /\ now - tui.last_cache_poll >= CachePoll
       THEN \E read \in {read_cache_full(cache)} :
                tui' = IF tui.config_loads /\ read.ok
                       THEN [tui EXCEPT
                                 !.pc = "keys", !.last_cache_poll = now,
                                 !.rows = payload_to_rows(
                                     CachedData_into_parts(Unwrap(read.data))[1]),
                                 !.errors = CachedData_into_parts(Unwrap(read.data))[2],
                                 !.last_error = ""]
                       ELSE [tui EXCEPT !.pc = "keys", !.last_cache_poll = now]
       ELSE tui' = [tui EXCEPT !.pc = "keys"]
    /\ UNCHANGED <<config, pc, w, joined, payloads, errors, now, overtaken,
                   projected, rows, call, cache, surface>>

\* A key handler that starts a refresh on every 'r'
TuiKeysUnguarded ==
    /\ tui.pc = "keys"
    /\ \E key \in {"none", "r", "q", "x"} :
           IF key = "q"
           THEN /\ tui' = [tui EXCEPT !.pc = "exited"]
                /\ surface' = [surface EXCEPT !.pc = "idle"]
           ELSE IF key = "r"
           THEN /\ tui' = [tui EXCEPT !.pc = "timer", !.pending = TRUE, !.chan = None,
                                      !.disconnected = FALSE, !.outstanding = @ + 1,
                                      !.status_message = "Refreshing"]
                /\ surface' = NewSurface("tui", TRUE)
           ELSE /\ tui' = [tui EXCEPT !.pc = "timer"]
                /\ UNCHANGED surface
    /\ UNCHANGED <<config, pc, w, joined, payloads, errors, now, overtaken,
                   projected, rows, call, cache>>

\* The frame is drawn and a key is polled for: Esc or 'q' leaves the loop (and
\* the process ends, its refresh thread with it), 'r' starts a forced refresh
\* (spawn_refresh(args, true)) if none is pending, any other key and no key do
\* nothing
TuiKeys ==
    /\ tui.pc = "keys"
    /\ \E key \in {"none", "r", "q", "x"} :
           IF key = "q"
           THEN /\ tui' = [tui EXCEPT !.pc = "exited"]
                /\ surface' = [surface EXCEPT !.pc = "idle"]
           ELSE IF key = "r" /\ ~tui.pending
           THEN /\ tui' = [tui EXCEPT !.pc = "timer", !.pending = TRUE, !.chan = None,
                                      !.disconnected = FALSE, !.outstanding = @ + 1,
                                      !.status_message = "Refreshing"]
                /\ surface' = NewSurface("tui", TRUE)
           ELSE /\ tui' = [tui EXCEPT !.pc = "timer"]
                /\ UNCHANGED surface
    /\ UNCHANGED <<config, pc, w, joined, payloads, errors, now, overtaken,
                   projected, rows, call, cache>>

\* The end of the loop body: with no refresh pending, a configuration that
\* loads and refresh_secs gone since last_refresh, spawn_refresh(args, false)
TuiTimer ==
    /\ tui.pc = "timer"
    /\ IF ~tui.pending /\ tui.config_loads /\ now - tui.last_refresh >= RefreshSecs
       THEN /\ tui' = [tui EXCEPT !.pc = "recv", !.pending = TRUE, !.chan = None,
                                  !.disconnected = FALSE, !.outstanding = @ + 1]
            /\ surface' = NewSurface("tui", FALSE)
       ELSE /\ tui' = [tui EXCEPT !.pc = "recv"]
            /\ UNCHANGED surface
    /\ UNCHANGED <<config, pc, w, joined, payloads, errors, now, overtaken,
                   projected, rows, call, cache>>

\* A minute passes
TuiTick ==
    /\ now < MaxNow
    /\ now' = now + 1
    /\ UNCHANGED <<config, pc, w, joined, payloads, errors, overtaken,
                   projected, rows, call, cache, surface, tui>>

TuiNext ==
    \/ SurfaceRead
    \/ SurfaceStat
    \/ SurfaceFetch
    \/ SurfaceWrite
    \/ ThreadSends
    \/ ThreadDies
    \/ TuiTryRecv
    \/ TuiPollCache
    \/ TuiKeys
    \/ TuiTimer
    \/ TuiTick

TuiSpec == TuiInit /\ [][TuiNext]_vars

\* C20: at most one background refresh is outstanding; a refresh is
\* outstanding exactly while pending_refresh holds its receiver, and a thread
\* that is still at work is the one whose receiver is held
C20_OneRefreshOutstanding ==
    /\ tui.outstanding <= 1
    /\ tui.pending <=> tui.outstanding = 1
    /\ surface.pc # "idle" => tui.pending

\* A forced refresh, started by 'r' after the first refresh was applied, is
\* at work
C20_Witness ==
    /\ tui.pending /\ tui.outstanding = 1
    /\ surface.force /\ surface.pc = "write"
    /\ tui.status_message = "Refreshing"

----------------------------------------------------------------------------
(* What a refresh leaves in the cache file                                 *)

\* The refresh has fetched and its write of the cache has succeeded
Stored == surface.events = <<"fetch", "write">> /\ ~surface.write_failed

\* The names of the providers among some payloads that carry no error
GoodNames(ps) == {ps[k].provider : k \in {j \in 1..Len(ps) : ~has_error(ps[j])}}

----------------------------------------------------------------------------
(* What a surface shows when it has nothing to show                        *)

\* draw_ui, the part below the header: the table of the rows, or, with no rows
\* and no errors, the status message, else the last error, else the fixed
\* text ("" stands for None in both)
draw_ui(state_rows, state_errors, status_message, last_error) ==
    IF state_rows = <<>> /\ state_errors = <<>>
    THEN [table |-> FALSE,
          message |-> IF status_message # "" THEN status_message
                      ELSE IF last_error # "" THEN last_error
                      ELSE "No providers returned"]
    ELSE [table |-> TRUE, message |-> ""]

\* The refresh has left the surface no row to show
NothingToShow ==
    IsSome(surface.got) => payload_to_rows(Unwrap(surface.got).payloads) = <<>>

\* C22: a surface that ends a refresh with no row to show shows an explicit
\* state: the status bar has printed an output object of class
\* tokengauge-empty or tokengauge-error, and the TUI, holding no rows and no
\* errors, draws its status message, its last error or "No providers
\* returned" in place of the table
C22_ExplicitEmptyOrError ==
    SurfaceEnded =>
        /\ (surface.kind = "waybar" /\ NothingToShow) =>
               surface.class \in {"tokengauge-empty", "tokengauge-error"}
        /\ (surface.kind = "tui" /\ surface.rows = <<>> /\ surface.errors = <<>>) =>
               /\ ~draw_ui(surface.rows, surface.errors, "", surface.last_error).table
               /\ draw_ui(surface.rows, surface.errors, "", surface.last_error).message
                      \in {"refresh thread disconnected", "No providers returned"}

----------------------------------------------------------------------------
(* The error classifier on failure texts put together from parts           *)

\* "codexbar failed (exit status: 1) - "
CodexbarFailedMarker ==
    <<99, 111, 100, 101, 120, 98, 97, 114, 32, 102, 97, 105, 108, 101,
          100, 32, 40, 101, 120, 105, 116, 32, 115, 116, 97, 116, 117, 115,
          58, 32, 49, 41, 32, 45, 32>>
\* "timeout after 2s", the text of a fetch whose timeout elapsed, and
\* "connection timeout "
TimeoutWords ==
    {timeout_error(timeout_secs).err,
     <<99, 111, 110, 110, 101, 99, 116, 105, 111, 110, 32, 116, 105, 109,
          101, 111, 117, 116, 32>>}

\* The parts failure texts are put together from.
\* markers: nothing, "codexbar failed (exit status: 1) - " (the text
\* fetch_single_provider gives a failed child), "Kimi K2 API returned ",
\* "Kimi K2 API error: ".
\* statuses, with the codes they name: none, "401: ", "503 401: ".
\* words: none, the timeout words, "No available fetch strategy for provider ".
\* tokens: none; {"error":"<text>"} with "Unauthorized" and with 70 times "x";
\* {"error":"Unauth with no closing quote; {"message":"<text>"} with "Bad key",
\* with 80 and with 81 times "x", and with nothing.
\* fillers: nothing, 60, 61 and 100 times "a", 100 times "é", and the 62 bytes
\* of LongMessage
RawParts ==
    LET ErrorToken(text) ==
        [kind |-> "error", text |-> text,
         bytes |-> <<123, 34, 101, 114, 114, 111, 114, 34, 58, 34>>
                   \o text \o <<34, 125>>]
        MessageToken(text) ==
        [kind |-> "message", text |-> text,
         bytes |-> <<123, 34, 109, 101, 115, 115, 97, 103, 101, 34, 58, 34>>
                   \o text \o <<34, 125>>]
    IN  [markers |->
             {<<>>, CodexbarFailedMarker,
              <<75, 105, 109, 105, 32, 75, 50, 32, 65, 80, 73, 32, 114, 101, 116,
                   117, 114, 110, 101, 100, 32>>,
              <<75, 105, 109, 105, 32, 75, 50, 32, 65, 80, 73, 32, 101, 114, 114,
                   111, 114, 58, 32>>},
         statuses |->
             {[bytes |-> <<>>, codes |-> {}],
              [bytes |-> <<52, 48, 49, 58, 32>>,
               codes |-> {<<52, 48, 49>>}],
              [bytes |-> <<53, 48, 51, 32, 52, 48, 49, 58, 32>>,
               codes |-> {<<52, 48, 49>>, <<53, 48, 51>>}]},
         words |->
             {<<>>,
              <<78, 111, 32, 97, 118, 97, 105, 108, 97, 98, 108, 101, 32, 102,
                   101, 116, 99, 104, 32, 115, 116, 114, 97, 116, 101, 103, 121, 32,
                   102, 111, 114, 32, 112, 114, 111, 118, 105, 100, 101, 114, 32>>}
             \cup TimeoutWords,
         tokens |->
             {[kind |-> "none", text |-> <<>>, bytes |-> <<>>],
              ErrorToken(<<85, 110, 97, 117, 116, 104, 111, 114, 105, 122, 101, 100>>),
              ErrorToken(Repeat(<<120>>, 70)),
              [kind |-> "open", text |-> <<>>,
               bytes |-> <<123, 34, 101, 114, 114, 111, 114, 34, 58, 34, 85, 110, 97, 117,
                   116, 104>>],
              MessageToken(<<66, 97, 100, 32, 107, 101, 121>>),
              MessageToken(Repeat(<<120>>, 80)),
              MessageToken(Repeat(<<120>>, 81)),
              MessageToken(<<>>)},
         fillers |->
             {<<>>, Repeat(<<97>>, 60), Repeat(<<97>>, 61), Repeat(<<97>>, 100),
              Repeat(<<195, 169>>, 100), LongMessage}]

\* A failure text of some parts, not yet classified
CleanInit ==
    /\ \E marker \in RawParts.markers : \E status \in RawParts.statuses :
       \E word \in RawParts.words : \E token \in RawParts.tokens :
       \E filler \in RawParts.fillers :
           call = [marker |-> marker, status |-> status, word |-> word,
                   token |-> token, filler |-> filler,
                   raw |-> marker \o status.bytes \o word \o token.bytes \o filler,
                   result |-> None]
    /\ FetchIdle
    /\ now = 0
    /\ cache = None /\ surface = None /\ tui = None

\* ProviderFetchError::new("codex", raw)
Classify ==
    /\ call.result = None
    /\ call' = [call EXCEPT !.result =
                    Some(ProviderFetchError_new(<<99, 111, 100, 101, 120>>, call.raw))]
    /\ UNCHANGED <<config, pc, w, joined, payloads, errors, now, overtaken,
                   projected, rows, cache, surface, tui>>

CleanSpec == CleanInit /\ [][Classify]_vars

\* The call has ended, by a value or by a panic
Classified == IsSome(call.result)

\* The short message of the error, where the call returned one
ShortOf(result) == Unwrap(result).value.message

\* "Request timed out"
RequestTimedOut ==
    <<82, 101, 113, 117, 101, 115, 116, 32, 116, 105, 109, 101, 100, 32,
          111, 117, 116>>

\* C23: a failure text that contains "timeout" and does not carry the marker
\* "codexbar failed" is classified without a panic, its short message is
\* exactly "Request timed out" and the error keeps the text as it was; the
\* text of a fetch whose timeout elapsed is such a text
C23_TimeoutCleans ==
    /\ (Classified /\ call.word \in TimeoutWords /\ call.marker # CodexbarFailedMarker) =>
           /\ ~Unwrap(call.result).panicked
           /\ ShortOf(call.result) = RequestTimedOut
           /\ Unwrap(call.result).value.raw = call.raw
    /\ (Classified /\ call.raw = timeout_error(timeout_secs).err) =>
           /\ ~Unwrap(call.result).panicked
           /\ ShortOf(call.result) = RequestTimedOut

\* The text of an elapsed timeout, alone, has been classified
C23_Witness ==
    /\ Classified
    /\ call.raw = timeout_error(timeout_secs).err
    /\ ShortOf(call.result) = RequestTimedOut
    /\ Unwrap(call.result).value.raw = call.raw

\* The number of characters of a text in UTF-8: its bytes but the
\* continuation bytes
Chars(s) == Cardinality({i \in 1..Len(s) : s[i] \notin 128..191})

\* The call has returned an error, with its short message
Cleaned == Classified /\ ~Unwrap(call.result).panicked

\* C24 as stated: every short message the classifier returns is at most 60
\* characters long
C24_AtMost60 ==
    Cleaned => Chars(ShortOf(call.result)) <= 60

\* C24: a short message the classifier returns is at most 60 bytes long,
\* unless it is taken out of the text: the value of a "message" field behind
\* the marker "codexbar failed", which is at most 80 bytes long, or the text
\* of an "error" token, which is as long as the token makes it, with the 11
\* bytes of " (HTTP <status>)" behind it if a status code is there
C24_LengthByRule ==
    Cleaned =>
        \/ Len(ShortOf(call.result)) <= 60
        \/ /\ call.marker = CodexbarFailedMarker /\ call.token.kind = "message"
           /\ ShortOf(call.result) = call.token.text
           /\ Len(ShortOf(call.result)) <= 80
        \/ /\ call.marker # <<>> /\ call.token.kind = "error"
           /\ Len(ShortOf(call.result)) <=
                  Len(call.token.text) + (IF call.status.codes = {} THEN 0 ELSE 11)

\* A "message" field of 80 bytes behind the marker has become the short
\* message
C24_Witness ==
    /\ Cleaned
    /\ call.marker = CodexbarFailedMarker /\ call.token.kind = "message"
    /\ Len(call.token.text) = 80
    /\ ShortOf(call.result) = call.token.text

\* C25: the classifier never fails: whatever the text, its length and its
\* characters, multi-byte characters at the place of the cut included, the
\* call returns an error with a short message and does not panic
C25_ClassifierNeverFails ==
    Classified => ~Unwrap(call.result).panicked

\* "<text> (HTTP <status>)"
WithStatus(text, status) ==
    text \o <<32, 40, 72, 84, 84, 80, 32>> \o status \o <<41>>

\* C26: for a text with the marker "codexbar failed" and a token
\* "error":"<text>", the short message is "<text> (HTTP <status>)", the status
\* being one of the codes in the text, when a code 401/403/404/500/502/503 is
\* in the text, and exactly "<text>" when none is; the text
\* 'codexbar failed (exit status: 1) - {"error":"Unauthorized"}' gives a
\* message that contains "Unauthorized"
C26_ApiErrorWithStatus ==
    /\ (Classified /\ call.marker = CodexbarFailedMarker /\ call.token.kind = "error") =>
           /\ ~Unwrap(call.result).panicked
           /\ IF call.status.codes = {}
              THEN ShortOf(call.result) = call.token.text
              ELSE \E status \in call.status.codes :
                       ShortOf(call.result) = WithStatus(call.token.text, status)
    /\ (Classified /\ call.raw = CodexbarFailedMarker
                                     \o <<123, 34, 101, 114, 114, 111, 114, 34, 58, 34,
                                           85, 110, 97, 117, 116, 104, 111, 114, 105,
                                           122, 101, 100, 34, 125>>) =>
           /\ ~Unwrap(call.result).panicked
           /\ Contains(ShortOf(call.result),
                       <<85, 110, 97, 117, 116, 104, 111, 114, 105, 122, 101, 100>>)

\* A text with the marker, the codes 503 and 401, a timeout word, the token
\* "error":"Unauthorized" and 100 bytes more gave "Unauthorized (HTTP 401)"
C26_Witness ==
    /\ Cleaned
    /\ call.marker = CodexbarFailedMarker /\ call.token.kind = "error"
    /\ Cardinality(call.status.codes) = 2 /\ call.word \in TimeoutWords
    /\ Len(call.filler) >= 100
    /\ ShortOf(call.result)
           = WithStatus(<<85, 110, 97, 117, 116, 104, 111, 114, 105, 122, 101, 100>>,
                        <<52, 48, 49>>)

\* "..."
Ellipsis == <<46, 46, 46>>

\* No rule of the marker, of the timeout or of the API error matches the text
NoRuleMatches == call.marker = <<>> /\ call.word \notin TimeoutWords

\* C27: a text that none of the marker, timeout and API rules matches is
\* classified without a panic; its short message is the text itself if the
\* text is at most 60 long, and its first 57 followed by "..." otherwise
\* (lengths as the code takes them, in bytes); so 100 times the same
\* character gives a message of at most 60 characters that ends in "..."
C27_VerbatimOrTruncated ==
    /\ (Classified /\ NoRuleMatches) =>
           /\ ~Unwrap(call.result).panicked
           /\ Len(call.raw) <= 60 => ShortOf(call.result) = call.raw
           /\ Len(call.raw) > 60 =>
                  ShortOf(call.result) = Slice(call.raw, 0, 57) \o Ellipsis
    /\ (Classified /\ call.raw \in {Repeat(<<97>>, 100), Repeat(<<195, 169>>, 100)}) =>
           /\ ~Unwrap(call.result).panicked
           /\ Chars(ShortOf(call.result)) <= 60
           /\ Slice(ShortOf(call.result), Len(ShortOf(call.result)) - 3,
                    Len(ShortOf(call.result))) = Ellipsis

----------------------------------------------------------------------------
(* Calls of the pure functions of the configuration and of the projection  *)

\* The weighted-average helper, as the specification gives it (section 4.6):
\* the sums of percent * minutes and of minutes over the pairs that have a
\* percent and a window length above zero
RECURSIVE weighted_sums(_)
weighted_sums(pairs) ==
    IF pairs = <<>> THEN [weighted |-> 0, minutes |-> 0]
    ELSE IF \/ ~IsSome(Head(pairs).percent)
            \/ ~IsSome(Head(pairs).minutes)
            \/ Unwrap(Head(pairs).minutes) <= 0
    THEN weighted_sums(Tail(pairs))
    ELSE [weighted |-> weighted_sums(Tail(pairs)).weighted
                           + Unwrap(Head(pairs).percent) * Unwrap(Head(pairs).minutes),
          minutes |-> weighted_sums(Tail(pairs)).minutes
                          + Unwrap(Head(pairs).minutes)]

\* The helper with the division cut off instead of rounded
weighted_average_floor(pairs) ==
    CHOOSE r \in {IF sums.minutes = 0 THEN None
                  ELSE Some(min100(sums.weighted \div sums.minutes)) :
                      sums \in {weighted_sums(pairs)}} : TRUE

\* ... and round(weighted / minutes), halves upwards, clamped to 100; no value
\* if the minutes sum to zero
weighted_average(pairs) ==
    CHOOSE r \in {IF sums.minutes = 0 THEN None
                  ELSE Some(min100((2 * sums.weighted + sums.minutes)
                                       \div (2 * sums.minutes))) :
                      sums \in {weighted_sums(pairs)}} : TRUE

\* How many pairs a call of the helper is given at most
MaxPairs == 2

\* One call, not yet made: is_enabled and enabled_providers on any
\* configuration (each OAuth flag absent, true or false, each API entry absent
\* or present) and any of the registry names, "gemini", "Codex" and "";
\* format_window on no window or a window of any u8 percent or none, of no
\* minutes, 0, 300 or 10080, with and without a description; the helper on
\* up to MaxPairs pairs
PureInit ==
    /\ \/ \E self \in [codex : {None, Some(TRUE), Some(FALSE)},
                        claude : {None, Some(TRUE), Some(FALSE)},
                        zai : {None, Some([api_key |-> ApiKey])},
                        kimik2 : {None, Some([api_key |-> ApiKey])},
                        copilot : {None, Some([api_key |-> ApiKey])},
                        minimax : {None, Some([api_key |-> ApiKey])},
                        kimi : {None, Some([api_key |-> ApiKey])}] :
          \E provider \in {PROVIDERS[k].name : k \in 1..Len(PROVIDERS)}
                           \cup {<<103, 101, 109, 105, 110, 105>>,
                                 <<67, 111, 100, 101, 120>>, <<>>} :
              call = [fn |-> "is_enabled", self |-> self, provider |-> provider,
                      result |-> None]
       \/ call = [fn |-> "format_window", window |-> None, result |-> None]
       \/ \E used \in {None} \cup {Some(u) : u \in 0..255} :
          \E minutes \in {None, Some(0), Some(300), Some(10080)} :
          \E reset \in {None, Some(<<105, 110, 32, 50, 104>>)} :
              call = [fn |-> "format_window",
                      window |-> Some([used_percent |-> used,
                                       reset_description |-> reset,
                                       window_minutes |-> minutes]),
                      result |-> None]
       \/ \E n \in 0..MaxPairs :
          \E pairs \in [1..n -> [percent : {None, Some(50), Some(80), Some(100), Some(255)},
                                 minutes : {None, Some(0), Some(100), Some(300)}]] :
              call = [fn |-> "weighted_average", pairs |-> pairs, result |-> None]
    /\ FetchIdle
    /\ now = 0
    /\ cache = None /\ surface = None /\ tui = None

\* self.is_enabled(provider), and self.enabled_providers() beside it
IsEnabledCall ==
    /\ call.fn = "is_enabled" /\ call.result = None
    /\ call' = [call EXCEPT !.result =
                    Some([is_enabled |-> is_enabled(call.self, call.provider),
                          enabled_providers |-> enabled_providers(call.self)])]
    /\ UNCHANGED <<config, pc, w, joined, payloads, errors, now, overtaken,
                   projected, rows, cache, surface, tui>>

\* format_window(window)
FormatWindowCall ==
    /\ call.fn = "format_window" /\ call.result = None
    /\ call' = [call EXCEPT !.result = Some(format_window(call.window))]
    /\ UNCHANGED <<config, pc, w, joined, payloads, errors, now, overtaken,
                   projected, rows, cache, surface, tui>>

\* The helper on the pairs
WeightedAverageCall ==
    /\ call.fn = "weighted_average" /\ call.result = None
    /\ call' = [call EXCEPT !.result = Some(weighted_average(call.pairs))]
    /\ UNCHANGED <<config, pc, w, joined, payloads, errors, now, overtaken,
                   projected, rows, cache, surface, tui>>

PureSpec ==
    PureInit /\ [][IsEnabledCall \/ FormatWindowCall \/ WeightedAverageCall]_vars

\* The call of fn has returned
Called(fn) == call.fn = fn /\ IsSome(call.result)

\* The configuration switches the k-th provider of the registry on: the flag
\* of an OAuth provider is Some(true), the entry of an API provider is there
SwitchedOn(self, k) ==
    CASE k = 1 -> self.codex = Some(TRUE)
      [] k = 2 -> self.claude = Some(TRUE)
      [] k = 3 -> self.zai # None
      [] k = 4 -> self.kimik2 # None
      [] k = 5 -> self.copilot # None
      [] k = 6 -> self.minimax # None
      [] k = 7 -> self.kimi # None

\* The places of the registry that hold a name
RegistryPlaces(name) == {k \in 1..Len(PROVIDERS) : PROVIDERS[k].name = name}

\* The names enabled_providers has listed, in its order
ListedNames ==
    [j \in 1..Len(Unwrap(call.result).enabled_providers) |->
        Unwrap(call.result).enabled_providers[j].name]

\* C28: for every configuration and every name, is_enabled(name) is true
\* exactly if enabled_providers() lists a provider of that name, and false for
\* a name the registry does not know; a provider is listed exactly if its
\* OAuth flag is Some(true) or its API entry is present; every listed
\* provider is listed once, and the list follows the order of the registry
C28_IsEnabledAgrees ==
    Called("is_enabled") =>
        /\ Unwrap(call.result).is_enabled
               <=> \E j \in DOMAIN ListedNames : ListedNames[j] = call.provider
        /\ RegistryPlaces(call.provider) = {} => ~Unwrap(call.result).is_enabled
        /\ \A k \in 1..Len(PROVIDERS) :
               (\E j \in DOMAIN ListedNames : ListedNames[j] = PROVIDERS[k].name)
                   <=> SwitchedOn(call.self, k)
        /\ \A i, j \in DOMAIN ListedNames :
               /\ ListedNames[i] = ListedNames[j] => i = j
               /\ i < j => \A a \in RegistryPlaces(ListedNames[i]) :
                           \A b \in RegistryPlaces(ListedNames[j]) : a < b

\* is_enabled("zai") was true under a configuration that has codex = false,
\* claude = true and the entries of zai and kimi
C28_Witness ==
    /\ Called("is_enabled")
    /\ call.provider = <<122, 97, 105>> /\ Unwrap(call.result).is_enabled
    /\ call.self.codex = Some(FALSE) /\ call.self.claude = Some(TRUE)
    /\ call.self.kimi # None
    /\ Len(ListedNames) >= 3

\* C29: format_window gives 100 for every used percent above 100 and the
\* percent itself for every percent up to 100, over the whole range of u8;
\* the window minutes come out as they went in; a window without a percent
\* gives no percent, and no window gives no percent and no minutes
C29_PercentClamped ==
    Called("format_window") =>
        IF call.window = None
        THEN /\ Unwrap(call.result).used = None
             /\ Unwrap(call.result).minutes = None
        ELSE /\ Unwrap(call.result).minutes = Unwrap(call.window).window_minutes
             /\ Unwrap(call.window).used_percent = None =>
                    Unwrap(call.result).used = None
             /\ \A used \in 0..255 :
                    Unwrap(call.window).used_percent = Some(used) =>
                        /\ used > 100 => Unwrap(call.result).used = Some(100)
                        /\ used <= 100 => Unwrap(call.result).used = Some(used)

\* A window of 255 percent and 10080 minutes came out as 100 percent and
\* 10080 minutes
C29_Witness ==
    /\ Called("format_window") /\ call.window # None
    /\ Unwrap(call.window).used_percent = Some(255)
    /\ Unwrap(call.result).used = Some(100)
    /\ Unwrap(call.result).minutes = Some(10080)

\* A pair counts: it has a percent and a window length above zero
Counts(pair) ==
    /\ pair.percent # None
    /\ pair.minutes # None /\ Unwrap(pair.minutes) > 0

\* The sum of a sequence of numbers
RECURSIVE SumOf(_)
SumOf(q) == IF q = <<>> THEN 0 ELSE Head(q) + SumOf(Tail(q))

\* Over the pairs of the call that count: the sum of percent * minutes, and
\* the sum of minutes
CountedWeighted ==
    SumOf([k \in 1..Len(SelectSeq(call.pairs, Counts)) |->
              Unwrap(SelectSeq(call.pairs, Counts)[k].percent)
                  * Unwrap(SelectSeq(call.pairs, Counts)[k].minutes)])
CountedMinutes ==
    SumOf([k \in 1..Len(SelectSeq(call.pairs, Counts)) |->
              Unwrap(SelectSeq(call.pairs, Counts)[k].minutes)])

\* One pair, both parts there
Pair(percent, minutes) == [percent |-> Some(percent), minutes |-> Some(minutes)]

\* C30: the weighted-average helper leaves out every pair without a percent
\* or without a window length above zero; it gives no value if the minutes of
\* the other pairs sum to zero, and otherwise the integer nearest to
\* sum(percent * minutes) / sum(minutes), halves upwards, or 100 if that is
\* above 100; [(80, 0)] and [] give no value, [(50, 100), (100, 100)] gives 75
C30_WeightedAverage ==
    Called("weighted_average") =>
        /\ CountedMinutes = 0 <=> Unwrap(call.result) = None
        /\ CountedMinutes > 0 =>
               \E r \in 0..100 :
                   /\ Unwrap(call.result) = Some(r)
                   /\ \/ /\ 2 * (r * CountedMinutes - CountedWeighted) <= CountedMinutes
                         /\ 2 * (CountedWeighted - r * CountedMinutes) < CountedMinutes
                      \/ /\ r = 100
                         /\ 2 * CountedWeighted + CountedMinutes >= 200 * CountedMinutes
        /\ call.pairs = <<Pair(80, 0)>> => Unwrap(call.result) = None
        /\ call.pairs = <<>> => Unwrap(call.result) = None
        /\ call.pairs = <<Pair(50, 100), Pair(100, 100)>> => Unwrap(call.result) = Some(75)

\* [(50, 100), (80, 300)], whose average is 72.5, gave 73
C30_Witness ==
    /\ Called("weighted_average")
    /\ call.pairs = <<Pair(50, 100), Pair(80, 300)>>
    /\ Unwrap(call.result) = Some(73)

----------------------------------------------------------------------------
(* The order of the classifier's rules                                     *)

\* "No available fetch strategy"
NoFetchStrategy ==
    <<78, 111, 32, 97, 118, 97, 105, 108, 97, 98, 108, 101, 32, 102, 101, 116, 99,
      104, 32, 115, 116, 114, 97, 116, 101, 103, 121>>

\* "API request failed"
ApiRequestFailed ==
    <<65, 80, 73, 32, 114, 101, 113, 117, 101, 115, 116, 32, 102, 97, 105, 108,
      101, 100>>

\* C31: every text with the marker "codexbar failed" is classified by the
\* first of these that applies, and by nothing else: the text of its "error"
\* token, alone or with an HTTP status; "No available fetch strategy" if it
\* has these words; the value of its "message" field if that is not empty
\* and at most 80 long; "API request failed".  The timeout rule and the
\* rules of the length do not apply to it, whatever else it contains
C31_MarkerRulesInOrder ==
    (Classified /\ call.marker = CodexbarFailedMarker) =>
        /\ ~Unwrap(call.result).panicked
        /\ IF call.token.kind = "error"
           THEN ShortOf(call.result)
                    \in {call.token.text}
                        \cup {WithStatus(call.token.text, status) :
                                  status \in call.status.codes}
           ELSE IF Contains(call.word, NoFetchStrategy)
           THEN ShortOf(call.result) = NoFetchStrategy
           ELSE IF /\ call.token.kind = "message"
                   /\ call.token.text # <<>> /\ Len(call.token.text) <= 80
           THEN ShortOf(call.result) = call.token.text
           ELSE ShortOf(call.result) = ApiRequestFailed

\* A text with the marker, a timeout word, no token and the 62 bytes that
\* the truncation panics on gave "API request failed"
C31_Witness ==
    /\ Cleaned
    /\ call.marker = CodexbarFailedMarker /\ call.word \in TimeoutWords
    /\ call.token.kind = "none" /\ call.filler = LongMessage
    /\ ShortOf(call.result) = ApiRequestFailed

----------------------------------------------------------------------------
(* The child of a fetch that timed out                                     *)

\* C32: an outstanding fetch is not cancelled.  The step by which a fetch
\* times out leaves its child as it is, running or just exited in the hands
\* of the helper thread: the caller neither kills it nor waits for it.  A
\* later step of that child or of its helper (the child exits, the helper
\* sends into the channel whose receiver is gone) changes nothing but the
\* child and what the helper holds: not the timeout result, not the channel,
\* no other worker, not what the join loop has collected, not the cache; and
\* nothing panics by it
C32_NoCancellation ==
    [][\A i \in 1..Len(w) :
          /\ (~TimedOut(i) /\ TimedOut(i)') =>
                 /\ w[i].child \in {"running", "exited"}
                 /\ w'[i].child = w[i].child /\ w'[i].waited = w[i].waited
          /\ (TimedOut(i) /\ w'[i].child # w[i].child) =>
                 /\ TimedOut(i)'
                 /\ w' = [w EXCEPT ![i].child = w'[i].child,
                                   ![i].waited = w'[i].waited]
                 /\ w'[i].chan = None
                 /\ pc' = pc
                 /\ UNCHANGED <<joined, payloads, errors, projected, rows, cache>>]_vars

\* A fetch has timed out with its child running; the child has exited since,
\* its helper has sent into the abandoned channel, and the call has returned
\* the timeout error of that provider among the results of two
C32_Witness ==
    /\ Returned /\ Len(w) = 2
    /\ \E i \in 1..2 :
           /\ TimedOut(i) /\ w[i].child = "reaped" /\ w[i].chan = None
           /\ Cardinality(ErrorsTagged(enabled[i].name)) = 1

----------------------------------------------------------------------------
(* The loop of the TUI over a configuration file that may stop loading,    *)
(* with the refresh thread taken as one step and fair scheduling           *)

\* The thread of spawn_refresh as one step: fetch_rows_with_config(.., force)
\* and sender.send(result).  load_config fails and its error is the result;
\* or the cache is read and tested, and either fetch_all_providers is called
\* and what it returns is written (a write that fails is dropped by .ok()) or
\* the parts of the cached data are taken.  A panic of fetch_all_providers
\* ends the thread and drops the sender with nothing sent
ThreadRuns ==
    /\ surface.pc = "read"
    /\ IF ~tui.config_loads
       THEN /\ tui' = [tui EXCEPT
                           !.chan = Some([ok |-> FALSE, err |-> "failed to parse config",
                                          rows |-> <<>>, errors |-> <<>>]),
                           !.disconnected = TRUE]
            /\ surface' = [surface EXCEPT !.pc = "idle"]
            /\ UNCHANGED cache
       ELSE \E cached \in {read_cache_full(cache).data} : \E old \in {stale(cache, now)} :
                IF surface.force \/ old \/ cached = None
                THEN \E out \in fetch_all_providers(config) :
                         IF out.panicked
                         THEN /\ tui' = [tui EXCEPT !.disconnected = TRUE]
                              /\ surface' = [surface EXCEPT !.pc = "idle", !.stale = old,
                                                            !.events = <<"fetch">>]
                              /\ UNCHANGED cache
                         ELSE \E wr \in write_cache_full(out.payloads, out.errors) :
                                  /\ cache' = wr.file
                                  /\ tui' = [tui EXCEPT
                                                 !.chan = Some([ok |-> TRUE, err |-> "",
                                                                rows |-> payload_to_rows(out.payloads),
                                                                errors |-> out.errors]),
                                                 !.disconnected = TRUE]
                                  /\ surface' = [surface EXCEPT
                                                     !.pc = "idle", !.stale = old,
                                                     !.events = <<"fetch", "write">>,
                                                     !.write_failed = ~wr.ok]
                ELSE \E parts \in {CachedData_into_parts(Unwrap(cached))} :
                         /\ tui' = [tui EXCEPT
                                        !.chan = Some([ok |-> TRUE, err |-> "",
                                                       rows |-> payload_to_rows(parts[1]),
                                                       errors |-> parts[2]]),
                                        !.disconnected = TRUE]
                         /\ surface' = [surface EXCEPT !.pc = "idle", !.stale = old]
                         /\ UNCHANGED cache
    /\ UNCHANGED <<config, pc, w, joined, payloads, errors, now, overtaken,
                   projected, rows, call>>

\* The configuration file is edited while the TUI runs: load_config, which
\* the loop and every refresh call anew, fails on it from now on, or succeeds
\* again
ConfigEdited ==
    /\ tui.pc # "exited"
    /\ tui' = [tui EXCEPT !.config_loads = ~@]
    /\ UNCHANGED <<config, pc, w, joined, payloads, errors, now, overtaken,
                   projected, rows, call, cache, surface>>

\* run_app has started the first refresh; the configuration file loads or
\* not, and the cache file is missing or holds a snapshot written just now
LoopInit ==
    /\ \E loads \in BOOLEAN :
           tui = [pc |-> "recv", pending |-> TRUE, chan |-> None, disconnected |-> FALSE,
                  outstanding |-> 1, rows |-> <<>>, errors |-> <<>>, last_error |-> "",
                  status_message |-> "", last_refresh |-> 0, last_cache_poll |-> 0,
                  config_loads |-> loads]
    /\ surface = NewSurface("tui", FALSE)
    /\ \/ cache = None
       \/ cache = Some(File(ser_CachedData(SnapshotFull), Some(0)))
    /\ now = 0
    /\ config = [providers |-> [DefaultProviders EXCEPT !.claude = Some(FALSE)]]
    /\ pc = "idle" /\ w = <<NewWorker>> /\ joined = 0
    /\ payloads = <<>> /\ errors = <<>> /\ overtaken = FALSE
    /\ projected = <<>> /\ rows = <<>>
    /\ call = None

\* The loop thread and the refresh thread are scheduled by the operating
\* system, and each of their steps ends: the loop polls for a key for 120 ms,
\* and every worker of fetch_all_providers ends by its timeout.  So the
\* refresh thread does not stay at its start for ever, and the loop stays at
\* none of its four positions for ever.  For ThreadRuns and TuiPollCache the
\* weak fairness is stated of the step as it shows in the position alone: it
\* is enabled in the same states and leads out of them as they do
LoopSpec ==
    /\ LoopInit
    /\ [][ThreadRuns \/ TuiTryRecv \/ TuiPollCache \/ TuiKeys \/ TuiTimer
              \/ TuiTick \/ ConfigEdited]_vars
    /\ WF_surface(surface.pc = "read" /\ surface' = [surface EXCEPT !.pc = "idle"])
    /\ WF_tui(TuiTryRecv)
    /\ WF_tui(tui.pc = "poll" /\ tui' = [tui EXCEPT !.pc = "keys"])
    /\ WF_tui(TuiKeys)
    /\ WF_tui(TuiTimer)

\* A step of the refresh thread, and a step of the loop
ThreadStep == surface.pc = "read" /\ surface'.pc = "idle" /\ tui'.pc = tui.pc
LoopStep == tui'.pc # tui.pc

\* The loop has left run_app
Exited == tui.pc = "exited"

\* C33: the loop never blocks on a refresh.  fetch_all_providers is called in
\* steps of the refresh thread only, which leave the loop where it is and hand
\* over nothing but the message and the dropped sender; the loop can take its
\* step at every position, whatever the thread is doing; the try_recv of a
\* pending refresh whose message has come or whose sender is gone ends the
\* pending state, applying the result or recording the disconnection; every
\* refresh that is pending leaves the pending state (or the loop is left);
\* and once none is pending the 'r' key can start a new one
C33_RefreshNeverBlocks ==
    /\ [][/\ ThreadStep => tui' = [tui EXCEPT !.chan = tui'.chan, !.disconnected = TRUE]
          /\ LoopStep => surface'.events \in {surface.events, <<>>}
          /\ (LoopStep /\ tui.pc = "recv" /\ tui.pending) =>
                 IF IsSome(tui.chan)
                 THEN ~tui'.pending /\ tui'.last_refresh = now
                 ELSE IF tui.disconnected
                 THEN ~tui'.pending /\ tui'.last_error = "refresh thread disconnected"
                 ELSE tui'.pending /\ surface.pc = "read"]_vars
    /\ [](~Exited => ENABLED (TuiTryRecv \/ TuiPollCache \/ TuiKeys \/ TuiTimer))
    /\ [](tui.pc = "keys" /\ ~tui.pending => ENABLED (TuiKeys /\ tui'.pending))
    /\ tui.pending ~> (~tui.pending \/ Exited)

\* A refresh has ended by the disconnection of its sender, which the loop has
\* recorded, and the next refresh is pending with its thread at work
C33_Witness ==
    /\ tui.last_error = "refresh thread disconnected"
    /\ tui.pending /\ tui.outstanding = 1 /\ surface.pc = "read"

\* C34: the try_recv that finds the result of the pending refresh applies it.
\* A successful result puts its rows and its errors in place of the displayed
\* ones and clears last_error; a failed one empties the displayed rows and
\* errors and leaves its text in last_error; either way the status message is
\* cleared and last_refresh is the present instant
C34_ApplyRefreshResult ==
    [][(LoopStep /\ tui.pc = "recv" /\ tui.pending /\ IsSome(tui.chan)) =>
           /\ IF Unwrap(tui.chan).ok
              THEN /\ tui'.rows = Unwrap(tui.chan).rows
                   /\ tui'.errors = Unwrap(tui.chan).errors
                   /\ tui'.last_error = ""
              ELSE /\ tui'.rows = <<>> /\ tui'.errors = <<>>
                   /\ tui'.last_error = Unwrap(tui.chan).err
                   /\ tui'.last_error # ""
           /\ tui'.status_message = ""
           /\ tui'.last_refresh = now]_vars

\* The forced refresh started by 'r' has failed on a configuration that does
\* not load, and its result has been applied at the last instant: nothing is
\* displayed but the failure, and the status message of 'r' is gone
C34_Witness ==
    /\ surface.force /\ surface.pc = "idle" /\ ~tui.pending /\ ~Exited
    /\ tui.last_error = "failed to parse config"
    /\ tui.rows = <<>> /\ tui.errors = <<>> /\ tui.status_message = ""
    /\ tui.last_refresh = MaxNow /\ cache # None

----------------------------------------------------------------------------
(* The 'r' key                                                             *)

\* C35: a refresh started at the key handler (by 'r', with none pending) is a
\* forced one and shows "Refreshing"; a forced refresh, once its thread is
\* through, has called fetch_all_providers and written the cache, whatever
\* the age of the cache; and a key pressed while a refresh is pending starts
\* nothing and leaves the pending refresh and the status message as they are
C35_ForcedRefresh ==
    /\ [][(LoopStep /\ tui.pc = "keys" /\ ~tui.pending /\ tui'.pending) =>
              /\ surface' = NewSurface("tui", TRUE)
              /\ tui'.status_message = "Refreshing"]_vars
    /\ []((surface.force /\ surface.pc \in {"return", "panicked", "idle"} /\ ~Exited) =>
              surface.events = <<"fetch", "write">>)
    /\ [][(LoopStep /\ tui.pc = "keys" /\ tui.pending /\ tui'.pc # "exited") =>
              /\ tui' = [tui EXCEPT !.pc = "timer"]
              /\ surface' = surface]_vars

----------------------------------------------------------------------------
(* The refresh interval                                                    *)

\* What is displayed was applied at least refresh_secs ago
Overdue == now - tui.last_refresh >= RefreshSecs

\* C36: at the end of a loop iteration with no refresh pending, a
\* configuration that loads and refresh_secs gone since the last applied
\* result, a non-forced refresh is started; and while the loop runs and the
\* configuration loads, a display that is overdue does not stay so: a result
\* is applied
C36_TimerKeepsRefreshing ==
    /\ [][(LoopStep /\ tui.pc = "timer" /\ ~tui.pending /\ tui.config_loads /\ Overdue) =>
              /\ tui'.pending
              /\ surface' = NewSurface("tui", FALSE)]_vars
    /\ (~Exited /\ tui.config_loads /\ Overdue)
           ~> (~Overdue \/ Exited \/ ~tui.config_loads)

----------------------------------------------------------------------------
(* Where the configured credential goes                                    *)

\* The entry of the registry for a provider, and the section of the
\* configuration that holds the key of an API-key provider
RegistryEntry(name) ==
    PROVIDERS[CHOOSE k \in 1..Len(PROVIDERS) : PROVIDERS[k].name = name]
ApiSection(name) ==
    CASE name = <<122, 97, 105>> -> config.providers.zai
      [] name = <<107, 105, 109, 105, 107, 50>> -> config.providers.kimik2
      [] name = <<99, 111, 112, 105, 108, 111, 116>> -> config.providers.copilot
      [] name = <<109, 105, 110, 105, 109, 97, 120>> -> config.providers.minimax
      [] name = <<107, 105, 109, 105>> -> config.providers.kimi

\* What worker i's fetch can have returned had the key been `key`, the child
\* ending as it did
ResultsWithKey(i, key) ==
    {spawn_error([enabled[i] EXCEPT !.api_key = Some(key)]),
     timeout_error(timeout_secs)}
    \cup (IF IsSome(w[i].waited)
          THEN {fetch_single_provider_received([enabled[i] EXCEPT !.api_key = Some(key)],
                                               Unwrap(w[i].waited))}
          ELSE {})

\* C37: every command a worker has spawned is that of its own provider.  For
\* an API-key provider it has the source "api" and an environment of exactly
\* one variable, the one the registry requires, set to the key configured for
\* that provider; for a delegated-credential provider it has the source
\* "oauth" and no variable; the key is in the environment of no other
\* worker's command.  What a fetch returns is what it returns under any other
\* key when the child ends the same way, and no error of the result, which is
\* what the cache file is written from, holds the key
C37_CredentialToOwnChildOnly ==
    /\ \A i \in 1..Len(w) : \A k \in 1..Len(w[i].invocations) :
           \E cmd \in {w[i].invocations[k]} :
               /\ cmd.provider = enabled[i].name
               /\ RegistryEntry(enabled[i].name).provider_type = "Api" =>
                      /\ cmd.source = "api"
                      /\ cmd.env = << <<Unwrap(RegistryEntry(enabled[i].name).env_var),
                                        Unwrap(ApiSection(enabled[i].name)).api_key>> >>
                      /\ \A j \in (1..Len(w)) \ {i} : \A m \in 1..Len(w[j].invocations) :
                             \A n \in 1..Len(w[j].invocations[m].env) :
                                 w[j].invocations[m].env[n][2] # cmd.env[1][2]
               /\ RegistryEntry(enabled[i].name).provider_type = "OAuth" =>
                      cmd.source = "oauth" /\ cmd.env = <<>>
    /\ \A i \in 1..Len(w) :
           w[i].st = "finished" =>
               \A key \in ApiKeys : w[i].result \in ResultsWithKey(i, key)
    /\ Returned =>
           \A k \in 1..Len(errors) : \A key \in ApiKeys :
               ~Contains(errors[k].raw, key) /\ ~Contains(errors[k].message, key)

\* zai, configured with the key "sk-2", was fetched after codex: its command
\* carried ZAI_API_TOKEN = "sk-2" and the source "api", codex's command the
\* source "oauth" and no variable, and the call has returned zai's payloads
C37_Witness ==
    /\ Returned /\ Len(w) = 2
    /\ enabled[2].name = <<122, 97, 105>>
    /\ w[2].invocations = << [provider |-> <<122, 97, 105>>, source |-> "api",
                              env |-> << <<"ZAI_API_TOKEN", <<115, 107, 45, 50>>>> >>] >>
    /\ w[1].invocations = << [provider |-> <<99, 111, 100, 101, 120>>,
                              source |-> "oauth", env |-> <<>>] >>
    /\ w[2].st = "finished" /\ w[2].result.ok /\ Len(w[2].result.payloads) = 1

----------------------------------------------------------------------------
(* Two processes writing the cache file: the status bar and the TUI        *)

\* The snapshots a process may have fetched: an error alone, a payload and
\* an error, and the snapshot of two payloads and an error
ShareSnapshots ==
    CHOOSE r \in {<< [full EXCEPT !.payloads = <<>>],
                     [full EXCEPT !.payloads = SubSeq(@, 1, 1)],
                     full >> : full \in {SnapshotFull}} : TRUE

\* The text serde_json::to_string gives for the n-th of the snapshots, as its
\* blocks: the text of a snapshot is the longer the more payloads it holds,
\* and the texts of two snapshots differ
TextOf(snapshots, n) == [k \in 1..(1 + Len(snapshots[n].payloads)) |-> <<n, k>>]

\* What serde_json reads from a text: the snapshot whose text it is; an empty
\* text, a text cut short and a text with the rest of another after it are
\* no JSON
ContentOf(snapshots, text) ==
    IF \E n \in DOMAIN snapshots : text = TextOf(snapshots, n)
    THEN ser_CachedData(snapshots[CHOOSE n \in DOMAIN snapshots :
                                      text = TextOf(snapshots, n)])
    ELSE NotJsonContent

\* The two processes, each with the snapshot it is about to write; the file
\* is missing or holds the text of an earlier snapshot.  call: the snapshots,
\* where each process is in fs::write and which snapshot it writes, the text
\* in the file (None: no file), and the process whose write_all returned last
ShareInit ==
    /\ \E snapshots \in {ShareSnapshots} :
       \E sb \in DOMAIN snapshots : \E tu \in DOMAIN snapshots :
       \E old \in {None} \cup {Some(TextOf(snapshots, n)) : n \in DOMAIN snapshots} :
           /\ call = [snapshots |-> snapshots,
                      waybar |-> [pc |-> "ready", data |-> sb],
                      tui |-> [pc |-> "ready", data |-> tu],
                      text |-> old, last |-> ""]
           /\ cache = IF old = None THEN None
                      ELSE Some(File(ContentOf(snapshots, Unwrap(old)), Some(0)))
    /\ now \in 0..1
    /\ FetchIdle
    /\ surface = None /\ tui = None

\* fs::write of the status bar (who = "waybar") or of the TUI's refresh thread
\* (who = "tui"), first half: File::create opens the file, truncating it
WriterCreates(who) ==
    /\ call[who].pc = "ready"
    /\ call' = [call EXCEPT ![who].pc = "created", !.text = Some(<<>>)]
    /\ cache' = Some(File(NotJsonContent, Some(now)))
    /\ UNCHANGED <<config, pc, w, joined, payloads, errors, now, overtaken,
                   projected, rows, surface, tui>>

\* fs::write, second half: write_all puts the text at the start of the file,
\* over what is there; what lies beyond its end stays
WriterWrites(who) ==
    /\ call[who].pc = "created"
    /\ \E mine \in {TextOf(call.snapshots, call[who].data)} :
       \E text \in {mine \o SubSeq(Unwrap(call.text), Len(mine) + 1,
                                   Len(Unwrap(call.text)))} :
           /\ call' = [call EXCEPT ![who].pc = "done", !.text = Some(text),
                                   !.last = who]
           /\ cache' = Some(File(ContentOf(call.snapshots, text), Some(now)))
    /\ UNCHANGED <<config, pc, w, joined, payloads, errors, now, overtaken,
                   projected, rows, surface, tui>>

ShareSpec ==
    ShareInit /\ [][\E who \in {"waybar", "tui"} :
                        WriterCreates(who) \/ WriterWrites(who)]_vars

\* Both processes have written
BothWritten == call.waybar.pc = "done" /\ call.tui.pc = "done"

\* C38: once both writes have completed, the file holds the snapshot of the
\* process that wrote last, and a read of it gives that snapshot
C38_LastWriteWins ==
    BothWritten =>
        \E snapshot \in {call.snapshots[call[call.last].data]} :
        \E read \in {read_cache_full(cache)} :
            /\ Unwrap(call.text) = TextOf(call.snapshots, call[call.last].data)
            /\ read.ok
            /\ CachedData_into_parts(Unwrap(read.data))
                   = <<snapshot.payloads, snapshot.errors>>

----------------------------------------------------------------------------
(* The enabled providers against the registry                              *)

\* The section of the configuration self that belongs to an API-key provider
SectionOf(self, name) ==
    CASE name = <<122, 97, 105>> -> self.zai
      [] name = <<107, 105, 109, 105, 107, 50>> -> self.kimik2
      [] name = <<99, 111, 112, 105, 108, 111, 116>> -> self.copilot
      [] name = <<109, 105, 110, 105, 109, 97, 120>> -> self.minimax
      [] name = <<107, 105, 109, 105>> -> self.kimi

\* C39: for every configuration, every provider enabled_providers() gives has
\* the name of exactly one entry of the registry, and the provider_type and
\* env_var of that entry; an API-key provider carries the key of its section
\* and the name of a variable, an OAuth provider neither
C39_EnabledMatchRegistry ==
    Called("is_enabled") =>
        /\ \A a, b \in 1..Len(PROVIDERS) :
               PROVIDERS[a].name = PROVIDERS[b].name => a = b
        /\ \A j \in DOMAIN Unwrap(call.result).enabled_providers :
           \E p \in {Unwrap(call.result).enabled_providers[j]} :
               /\ Cardinality(RegistryPlaces(p.name)) = 1
               /\ p.provider_type = RegistryEntry(p.name).provider_type
               /\ p.env_var = RegistryEntry(p.name).env_var
               /\ p.provider_type = "Api" =>
                      /\ IsSome(p.env_var)
                      /\ IsSome(SectionOf(call.self, p.name))
                      /\ p.api_key = Some(Unwrap(SectionOf(call.self, p.name)).api_key)
               /\ p.provider_type = "OAuth" =>
                      p.api_key = None /\ p.env_var = None
               /\ p.provider_type \in {"Api", "OAuth"}

\* enabled_providers() of claude = true with the section of zai has returned
\* claude without key or variable and zai with both
C39_Witness ==
    /\ Called("is_enabled")
    /\ call.self.claude = Some(TRUE) /\ call.self.codex = None
    /\ call.self.zai # None /\ call.self.kimi = None
    /\ Len(Unwrap(call.result).enabled_providers) = 2
    /\ Unwrap(call.result).enabled_providers[1].api_key = None
    /\ Unwrap(call.result).enabled_providers[2].api_key = Some(ApiKey)
    /\ Unwrap(call.result).enabled_providers[2].env_var = Some("ZAI_API_TOKEN")

====
